---- MODULE Spec2Model ----
(***************************************************************************)
(* Model of elodie's manifest-driven import pipeline:                      *)
(*   elodie.py            import_file, _import                             *)
(*   elodie/manifest.py   deep_merge, Manifest                             *)
(*   elodie/filesystem.py FileSystem (pattern resolver, file names,        *)
(*                        generate_manifest, execute_manifest)             *)
(*                                                                         *)
(* Conventions.  A Python str that the code parses is a sequence of        *)
(* one-character strings (<<"%","Y">> is '%Y').  Source paths are opaque   *)
(* strings: the code only hands them to os.path / Media, never parses      *)
(* them.  A JSON/dict value is tagged: Map(f) is a dict, Str(v) a str,     *)
(* Tuple(v) a tuple, None is Python's None.  An optional field is <<>>     *)
(* (None) or <<x>>.  Logging (elodie/log.py) is an external collaborator   *)
(* whose calls do not change the control flow.                             *)
(***************************************************************************)
EXTENDS Integers, Sequences, FiniteSets, TLC

(***************************************************************************)
(* Python values                                                           *)
(***************************************************************************)
None == [t |-> "none"]
Map(f) == [t |-> "map", m |-> f]
Str(x) == [t |-> "str", v |-> x]
Tuple(x) == [t |-> "tuple", v |-> x]
EmptyMap == Map(<<>>)
IsMapping(x) == x.t = "map"
Keys(d) == DOMAIN d.m
\* dict.get(k, default)
Get(d, k, default) == IF k \in Keys(d) THEN d.m[k] ELSE default
\* d[k] = v
Put(d, k, v) == Map([x \in Keys(d) \cup {k} |-> IF x = k THEN v ELSE d.m[x]])

(***************************************************************************)
(* manifest.py: deep_merge(d, u).  MergeItems is the `for k, v in          *)
(* u.items()` loop over the keys not yet visited.                          *)
(***************************************************************************)
RECURSIVE deep_merge(_, _), MergeItems(_, _, _)
MergeItems(d, u, ks) ==
    IF ks = {} THEN d
    ELSE LET k == CHOOSE x \in ks : TRUE
             v == u.m[k]
             d2 == IF IsMapping(d)
                   THEN IF IsMapping(v)
                        THEN Put(d, k, deep_merge(Get(d, k, EmptyMap), v))
                        ELSE Put(d, k, v)
                   ELSE Map([x \in {k} |-> v])
         IN  MergeItems(d2, u, ks \ {k})

deep_merge(d, u) == IF d = None THEN u ELSE MergeItems(d, u, Keys(u))

(***************************************************************************)
(* Strings as character sequences                                          *)
(***************************************************************************)
Digits == {"0", "1", "2", "3", "4", "5", "6", "7", "8", "9"}
LowerLetters == {"a", "b", "c", "d", "e", "f", "g", "h", "i", "j", "k", "l", "m",
                 "n", "o", "p", "q", "r", "s", "t", "u", "v", "w", "x", "y", "z"}
UpperPairs == {<<"A", "a">>, <<"B", "b">>, <<"C", "c">>, <<"D", "d">>, <<"E", "e">>,
               <<"F", "f">>, <<"G", "g">>, <<"H", "h">>, <<"I", "i">>, <<"J", "j">>,
               <<"K", "k">>, <<"L", "l">>, <<"M", "m">>, <<"N", "n">>, <<"O", "o">>,
               <<"P", "p">>, <<"Q", "q">>, <<"R", "r">>, <<"S", "s">>, <<"T", "t">>,
               <<"U", "u">>, <<"V", "v">>, <<"W", "w">>, <<"X", "x">>, <<"Y", "y">>,
               <<"Z", "z">>}
UpperLetters == {p[1] : p \in UpperPairs}
\* the characters the regex class \w matches
WordChars == Digits \cup LowerLetters \cup UpperLetters \cup {"_"}
Whitespace == {" "}

LowerChar(c) == IF c \in UpperLetters
                THEN (CHOOSE p \in UpperPairs : p[1] = c)[2]
                ELSE c
\* str.lower()
Lower(s) == [i \in 1..Len(s) |-> LowerChar(s[i])]

\* s.startswith(p) tested at position i (1-based)
MatchAt(s, i, p) == /\ i + Len(p) - 1 <= Len(s)
                    /\ \A j \in 1..Len(p) : s[i + j - 1] = p[j]

\* str.replace(old, new): non-overlapping occurrences, left to right
RECURSIVE ReplaceFrom(_, _, _, _)
ReplaceFrom(s, i, old, new) ==
    IF i > Len(s) THEN <<>>
    ELSE IF Len(old) > 0 /\ MatchAt(s, i, old)
         THEN new \o ReplaceFrom(s, i + Len(old), old, new)
         ELSE <<s[i]>> \o ReplaceFrom(s, i + 1, old, new)
Replace(s, old, new) == ReplaceFrom(s, 1, old, new)

\* str.split(sep) for a one-character separator
RECURSIVE SplitFrom(_, _, _, _)
SplitFrom(s, i, sep, cur) ==
    IF i > Len(s) THEN <<cur>>
    ELSE IF s[i] = sep
         THEN <<cur>> \o SplitFrom(s, i + 1, sep, <<>>)
         ELSE SplitFrom(s, i + 1, sep, Append(cur, s[i]))
Split(s, sep) == SplitFrom(s, 1, sep, <<>>)

\* str.strip()
RECURSIVE LStrip(_), RStrip(_)
LStrip(s) == IF Len(s) > 0 /\ s[1] \in Whitespace THEN LStrip(Tail(s)) ELSE s
RStrip(s) == IF Len(s) > 0 /\ s[Len(s)] \in Whitespace
             THEN RStrip(SubSeq(s, 1, Len(s) - 1)) ELSE s
Strip(s) == RStrip(LStrip(s))

(***************************************************************************)
(* time.strftime(mask, t).  A struct_time is a record of the formatted     *)
(* fields.  A `%` followed by a directive letter expands; every other      *)
(* character is copied.                                                    *)
(***************************************************************************)
Directives == {"Y", "y", "m", "d", "H", "M", "S", "b"}
Directive(t, c) == CASE c = "Y" -> t.Y
                     [] c = "y" -> SubSeq(t.Y, 3, 4)
                     [] c = "m" -> t.m
                     [] c = "d" -> t.d
                     [] c = "H" -> t.H
                     [] c = "M" -> t.M
                     [] c = "S" -> t.S
                     [] c = "b" -> t.b
RECURSIVE StrftimeFrom(_, _, _)
StrftimeFrom(mask, i, t) ==
    IF i > Len(mask) THEN <<>>
    ELSE IF mask[i] = "%" /\ i < Len(mask) /\ mask[i + 1] \in Directives
         THEN Directive(t, mask[i + 1]) \o StrftimeFrom(mask, i + 2, t)
         ELSE <<mask[i]>> \o StrftimeFrom(mask, i + 1, t)
strftime(mask, t) == StrftimeFrom(mask, 1, t)
(***************************************************************************)
(* filesystem.py: FileSystem.get_folder_path_definition                    *)
(***************************************************************************)
default_parts == {<<"a", "l", "b", "u", "m">>, <<"c", "i", "t", "y">>,
                  <<"s", "t", "a", "t", "e">>, <<"c", "o", "u", "n", "t", "r", "y">>,
                  <<"o", "r", "i", "g", "i", "n">>}

\* last index j >= i of the run of non-'/' characters starting at i
RECURSIVE RunEnd(_, _)
RunEnd(s, i) == IF i < Len(s) /\ s[i + 1] # "/" THEN RunEnd(s, i + 1) ELSE i

\* re.findall('(\%[^/]+)', pattern)
RECURSIVE FindParts(_, _)
FindParts(s, i) ==
    IF i > Len(s) THEN <<>>
    ELSE IF s[i] = "%" /\ i < Len(s) /\ s[i + 1] # "/"
         THEN LET j == RunEnd(s, i + 1)
              IN  <<SubSeq(s, i, j)>> \o FindParts(s, j + 1)
         ELSE FindParts(s, i + 1)

\* one element of cached_folder_path_definition for a matched part
PartDefinition(raw) ==
    LET alternatives(ps) == [i \in 1..Len(ps) |-> <<ps[i], <<"%">> \o ps[i]>>]
        definition(part) == IF part \in default_parts
                            THEN << <<part, <<>> >> >>
                            ELSE alternatives(Split(part, "|"))
    IN  definition(Replace(raw, <<"%">>, <<>>))

NoCache == [set |-> FALSE, def |-> <<>>]

\* returns the definition (or raises) and the new value of
\* self.cached_folder_path_definition
get_folder_path_definition(cache, pattern) ==
    IF cache.set
    THEN [raised |-> FALSE, value |-> cache.def, cache |-> cache]
    ELSE LET cached(def) == [raised |-> FALSE, value |-> def,
                             cache |-> [set |-> TRUE, def |-> def]]
             compiled(path_parts) ==
                 IF Len(path_parts) = 0
                 THEN [raised |-> TRUE, value |-> <<>>, cache |-> cache]
                 ELSE cached([i \in 1..Len(path_parts) |-> PartDefinition(path_parts[i])])
         IN  compiled(FindParts(pattern, 1))

(***************************************************************************)
(* filesystem.py: FileSystem.get_folder_path                               *)
(***************************************************************************)
DateParts == {<<"d", "a", "t", "e">>, <<"d", "a", "y">>, <<"m", "o", "n", "t", "h">>,
              <<"y", "e", "a", "r">>, <<"Y">>, <<"m">>, <<"d">>}
FieldParts == {<<"a", "l", "b", "u", "m">>, <<"c", "a", "m", "e", "r", "a", "_", "m", "a", "k", "e">>,
               <<"c", "a", "m", "e", "r", "a", "_", "m", "o", "d", "e", "l">>,
               <<"o", "r", "i", "g", "i", "n">>}
undated == <<"u", "n", "d", "a", "t", "e", "d">>

\* metadata[part] for the parts of FieldParts
Field(metadata, part) ==
    CASE part = <<"a", "l", "b", "u", "m">> -> metadata.album
      [] part = <<"c", "a", "m", "e", "r", "a", "_", "m", "a", "k", "e">> -> metadata.camera_make
      [] part = <<"c", "a", "m", "e", "r", "a", "_", "m", "o", "d", "e", "l">> -> metadata.camera_model
      [] part = <<"o", "r", "i", "g", "i", "n">> -> metadata.origin
\* Python truthiness of an optional str
Truthy(opt) == opt # <<>> /\ Len(opt[1]) > 0

IsQuoted(part) == Len(part) >= 1 /\ part[1] = "\"" /\ part[Len(part)] = "\""
\* part[1:-1]
Unquote(part) == SubSeq(part, 2, Len(part) - 1)

\* `undated` appended for every temporal segment
append_undated_always(path, flag_undated) == Append(path, undated)
\* lines 276-279: `undated` is appended unless the flag is set
append_undated(path, flag_undated) == IF flag_undated THEN path ELSE Append(path, undated)

\* the inner loop `for this_part in path_part`, from alternative i on;
\* acc = [path, flag_undated]
RECURSIVE ResolveAlternatives(_, _, _, _)
ResolveAlternatives(path_part, i, metadata, acc) ==
    IF i > Len(path_part) THEN acc
    ELSE LET part == path_part[i][1]
             mask == path_part[i][2]
         IN  IF part \in DateParts
             THEN IF metadata.date_taken # <<>>
                  THEN [acc EXCEPT !.path = Append(@, strftime(mask, metadata.date_taken[1]))]
                  ELSE [path |-> append_undated(acc.path, acc.flag_undated),
                        flag_undated |-> TRUE]
             ELSE IF part \in FieldParts
             THEN IF Truthy(Field(metadata, part))
                  THEN [acc EXCEPT !.path = Append(@, Field(metadata, part)[1])]
                  ELSE ResolveAlternatives(path_part, i + 1, metadata, acc)
             ELSE IF IsQuoted(part)
             THEN ResolveAlternatives(path_part, i + 1, metadata,
                                      [acc EXCEPT !.path = Append(@, Unquote(part))])
             ELSE ResolveAlternatives(path_part, i + 1, metadata, acc)

\* the outer loop `for path_part in path_parts`
RECURSIVE ResolveParts(_, _, _, _)
ResolveParts(path_parts, i, metadata, acc) ==
    IF i > Len(path_parts) THEN acc
    ELSE ResolveParts(path_parts, i + 1, metadata,
                      ResolveAlternatives(path_parts[i], 1, metadata, acc))

\* value: the components handed to os.path.join, which raises TypeError
\* when there is none
get_folder_path(metadata, target_config, cache) ==
    LET joined(path, d) == [raised |-> Len(path) = 0, value |-> path, cache |-> d.cache]
        resolved(d) ==
            IF d.raised THEN [raised |-> TRUE, value |-> <<>>, cache |-> d.cache]
            ELSE joined(ResolveParts(d.value, 1, metadata,
                                     [path |-> <<>>, flag_undated |-> FALSE]).path, d)
    IN  resolved(get_folder_path_definition(cache, target_config.file_path_pattern))
(***************************************************************************)
(* filesystem.py: FileSystem.get_file_name                                 *)
(***************************************************************************)
\* re.sub('^\d{4}-\d{2}-\d{2}_\d{2}-\d{2}-\d{2}-', '', s)
DatePrefixLen == 20
HasDatePrefix(s) ==
    /\ Len(s) >= DatePrefixLen
    /\ \A i \in {1, 2, 3, 4, 6, 7, 9, 10, 12, 13, 15, 16, 18, 19} : s[i] \in Digits
    /\ \A i \in {5, 8, 14, 17, 20} : s[i] = "-"
    /\ s[11] = "_"
StripDatePrefix(s) == IF HasDatePrefix(s) THEN SubSeq(s, DatePrefixLen + 1, Len(s)) ELSE s

\* re.sub('\W+', '-', s): every maximal run of non-word characters becomes '-'
RECURSIVE SubNonWord(_, _)
SubNonWord(s, i) ==
    IF i > Len(s) THEN <<>>
    ELSE IF s[i] \in WordChars THEN <<s[i]>> \o SubNonWord(s, i + 1)
    ELSE IF i > 1 /\ s[i - 1] \notin WordChars THEN SubNonWord(s, i + 1)
    ELSE <<"-">> \o SubNonWord(s, i + 1)

\* os.path.splitext(name)[0] for a name without directory separators
RECURSIVE LastDot(_, _)
LastDot(s, i) == IF i = 0 THEN 0 ELSE IF s[i] = "." THEN i ELSE LastDot(s, i - 1)
SplitExt(s) ==
    LET k == LastDot(s, Len(s))
    IN  IF k = 0 \/ \A j \in 1..k : s[j] = "."
        THEN <<s, <<>> >>
        ELSE <<SubSeq(s, 1, k - 1), SubSeq(s, k, Len(s))>>

\* '-'.join(parts)
RECURSIVE Join(_, _)
Join(parts, sep) == IF Len(parts) = 0 THEN <<>>
                    ELSE IF Len(parts) = 1 THEN parts[1]
                    ELSE parts[1] \o sep \o Join(Tail(parts), sep)

\* the mask of the day alone
FileNameDayMask == <<"%", "Y", "-", "%", "m", "-", "%", "d">>
\* line 178: '%Y-%m-%d_%H-%M-%S'
FileNameDateMask == <<"%", "Y", "-", "%", "m", "-", "%", "d", "_", "%", "H", "-", "%", "M", "-", "%", "S">>

get_file_name(metadata, target_config) ==
    LET unprefixed(stripped) == IF Len(stripped) = 0 THEN metadata.base_name ELSE stripped
        base0 == IF Truthy(metadata.original_name)
                 THEN SplitExt(metadata.original_name[1])[1]
                 ELSE unprefixed(StripDatePrefix(metadata.base_name))
        titled(base, title_sanitized) ==
            Replace(base, <<"-">> \o title_sanitized, <<>>) \o <<"-">> \o title_sanitized
        base_name == IF Truthy(metadata.title)
                     THEN titled(base0, SubNonWord(Strip(metadata.title[1]), 1))
                     ELSE base0
        date_part == IF metadata.date_taken # <<>>
                     THEN <<strftime(FileNameDateMask, metadata.date_taken[1])>>
                     ELSE <<>>
        origin_part == IF metadata.origin # <<>> THEN <<metadata.origin[1]>>
                       ELSE IF metadata.camera_model # <<>> THEN <<metadata.camera_model[1]>>
                       ELSE <<>>
        file_name_parts == date_part \o origin_part \o <<base_name>>
    IN  Lower(Join(file_name_parts, <<"-">>) \o <<".">> \o metadata.extension)

(***************************************************************************)
(* filesystem.py: FileSystem.generate_manifest                             *)
(***************************************************************************)
\* the sparse metadata snapshot recorded under sources[file_path]
SourceSnapshot(metadata) ==
    LET ks == {k \in {"date_taken", "camera_make", "camera_model", "album", "title", "origin"} :
                  CASE k = "date_taken" -> metadata.date_taken # <<>>
                    [] k = "camera_make" -> metadata.camera_make # <<>>
                    [] k = "camera_model" -> metadata.camera_model # <<>>
                    [] k = "album" -> metadata.album # <<>>
                    [] k = "title" -> metadata.title # <<>>
                    [] k = "origin" -> metadata.origin # <<>>}
    IN  Map([k \in ks |->
                CASE k = "date_taken" -> Tuple(metadata.date_taken)
                  [] k = "camera_make" -> Str(metadata.camera_make[1])
                  [] k = "camera_model" -> Str(metadata.camera_model[1])
                  [] k = "album" -> Str(metadata.album[1])
                  [] k = "title" -> Str(metadata.title[1])
                  [] k = "origin" -> Str(metadata.origin[1])])

\* value: the manifest entry; raised: get_folder_path raised
generate_manifest(file_path, target_config, metadata, cache) ==
    LET entry(fp) ==
            [raised |-> fp.raised,
             cache |-> fp.cache,
             value |-> Map([k \in {"sources", "target"} |->
                              IF k = "sources"
                              THEN Map([f \in {file_path} |-> SourceSnapshot(metadata)])
                              ELSE Map([j \in {"path", "name"} |->
                                          IF j = "path" THEN Str(fp.value)
                                          ELSE Str(get_file_name(metadata, target_config))])])]
    IN  entry(get_folder_path(metadata, target_config, cache))
(***************************************************************************)
(* The file system.  The source tree maps a source path to the content of  *)
(* the file there; the target tree maps [dir, name] under the target's     *)
(* base_path to a content.  A content is identified with its SHA-256       *)
(* digest, which filesystem.py:checksum and Manifest.checksum compute from *)
(* the bytes alone.                                                        *)
(***************************************************************************)
\* content of a destination left behind by a copy that failed half way
Truncated == "partial"
Contents == {"c1", "c2", "c3", "c4", "c5", Truncated}
\* the hex digest as it is spliced into a file name
HexDigest(content) == CASE content = "c1" -> <<"a", "1">>
                        [] content = "c2" -> <<"b", "2">>
                        [] content = "c3" -> <<"c", "3">>
                        [] content = "c4" -> <<"d", "4">>
                        [] content = "c5" -> <<"e", "5">>
                        [] content = Truncated -> <<"f", "f">>
\* the digest as a dict key of the manifest
checksum(content) == "sha:" \o content

Dest(path, name) == [dir |-> path, name |-> name]
IsFile(tree, p) == p \in DOMAIN tree
\* shutil.copy(src, p): creates or overwrites p
WriteFile(tree, p, content) ==
    [x \in DOMAIN tree \cup {p} |-> IF x = p THEN content ELSE tree[x]]
\* os.makedirs(d): d and every missing ancestor below the base path
MakeDirs(ds, d) == ds \cup {SubSeq(d, 1, n) : n \in 1..Len(d)}

\* outcomes of one shutil.copy: done, raised before anything was written,
\* raised leaving a truncated destination
CopyOutcomes == {"ok", "raise_clean", "raise_partial"}

(***************************************************************************)
(* filesystem.py: FileSystem.execute_manifest(source_path, manifest_entry, *)
(* base_path).  result is "True", "False", "None" or "raise".              *)
(***************************************************************************)
\* the colliding copy written over the occupied destination
name_without_hash(target_name, sum, target_ext) == target_name \o target_ext
\* line 326: ''.join([target_name, '.', checksum(source_path), target_ext])
name_with_hash(target_name, sum, target_ext) == target_name \o <<".">> \o sum \o target_ext

execute_manifest(source_path, manifest_entry, srcTree, dstTree, dirSet, io) ==
    LET same == [result |-> "raise", dst |-> dstTree, dirs |-> dirSet]
        copy_with_hash(with_hash) ==
            CASE io = "ok" ->
                   [result |-> "True", dirs |-> dirSet,
                    dst |-> WriteFile(dstTree, with_hash, srcTree[source_path])]
              [] io = "raise_clean" -> same
              [] io = "raise_partial" ->
                   [same EXCEPT !.dst = WriteFile(dstTree, with_hash, Truncated)]
        with_hash_name(tname, ne) ==
            name_with_hash(ne[1], HexDigest(srcTree[source_path]), ne[2])
        place(tpath, tname, destination) ==
            IF IsFile(dstTree, destination)
            THEN IF ~IsFile(srcTree, source_path)
                 THEN same   \* checksum(source_path) cannot open the file
                 ELSE IF dstTree[destination] = srcTree[source_path]
                 THEN [same EXCEPT !.result = "True"]
                 ELSE copy_with_hash(Dest(tpath, with_hash_name(tname, SplitExt(tname))))
            ELSE IF IsFile(srcTree, source_path)
                 THEN CASE io = "ok" ->
                             [result |-> "True", dirs |-> MakeDirs(dirSet, tpath),
                              dst |-> WriteFile(dstTree, destination, srcTree[source_path])]
                        [] io = "raise_clean" ->
                             [result |-> "False", dirs |-> MakeDirs(dirSet, tpath),
                              dst |-> dstTree]
                        [] io = "raise_partial" ->
                             [result |-> "False", dirs |-> MakeDirs(dirSet, tpath),
                              dst |-> WriteFile(dstTree, destination, Truncated)]
                 ELSE [same EXCEPT !.result = "None"]
        target(target_manifest) ==
            place(target_manifest.m["path"].v, target_manifest.m["name"].v,
                  Dest(target_manifest.m["path"].v, target_manifest.m["name"].v))
    IN  target(manifest_entry.m["target"])

(***************************************************************************)
(* The inputs: the files of the source tree with the metadata the media    *)
(* classes (external) extract for them, and the import configuration.     *)
(***************************************************************************)
SourcePaths == {"/s/a/IMG1.jpg", "/s/b/IMG1.jpg", "/s/c/copy.jpg", "/s/d/scan.jpg",
                "/s/e/notes.xyz", "/s/elodie.json", "/s/gone.jpg"}
\* os.walk order of the source tree; /s/gone.jpg is removed between the scan
\* and its import
ScanOrder == <<"/s/a/IMG1.jpg", "/s/b/IMG1.jpg", "/s/elodie.json", "/s/gone.jpg",
               "/s/c/copy.jpg", "/s/d/scan.jpg", "/s/e/notes.xyz">>
\* /s/c/copy.jpg is a byte-for-byte copy of /s/a/IMG1.jpg; /s/b/IMG1.jpg an
\* edited version with the same name and capture time
InitialSource == [p \in SourcePaths \ {"/s/gone.jpg"} |->
                     CASE p = "/s/a/IMG1.jpg" -> "c1"
                       [] p = "/s/b/IMG1.jpg" -> "c2"
                       [] p = "/s/c/copy.jpg" -> "c1"
                       [] p = "/s/d/scan.jpg" -> "c3"
                       [] p = "/s/e/notes.xyz" -> "c4"
                       [] p = "/s/elodie.json" -> "c5"]
\* Media.get_class_by_file: the extensions with a media handler
SupportedPaths == {"/s/a/IMG1.jpg", "/s/b/IMG1.jpg", "/s/c/copy.jpg", "/s/d/scan.jpg",
                   "/s/gone.jpg"}
\* current_file.endswith("elodie.json")
IsSidecar(p) == p = "/s/elodie.json"

Time1 == [Y |-> <<"2", "0", "2", "0">>, m |-> <<"0", "3">>, d |-> <<"0", "4">>,
          H |-> <<"1", "0">>, M |-> <<"2", "0">>, S |-> <<"3", "0">>, b |-> <<"M", "a", "r">>]
\* media.get_metadata(metadata_dict) for each source file
metadata_of(p) ==
    LET dated == [date_taken |-> <<Time1>>, original_name |-> <<>>, title |-> <<>>,
                  album |-> <<>>, camera_make |-> <<>>, camera_model |-> <<>>,
                  origin |-> <<>>, extension |-> <<"j", "p", "g">>,
                  base_name |-> <<"I", "M", "G", "1">>]
    IN  CASE p = "/s/c/copy.jpg" ->
               [dated EXCEPT !.base_name = <<"c", "o", "p", "y">>,
                             !.album = << <<"T", "r", "i", "p">> >>]
          [] p = "/s/d/scan.jpg" ->
               [dated EXCEPT !.base_name = <<"s", "c", "a", "n">>, !.date_taken = <<>>,
                             !.origin = << <<"s", "c", "n">> >>]
          [] OTHER -> dated

\* file_path_pattern values: '%date/%album|"U"', '%album' and 'photos'
PatternDateAlbum == <<"%", "d", "a", "t", "e", "/", "%", "a", "l", "b", "u", "m", "|", "\"", "U", "\"">>
PatternAlbum == <<"%", "a", "l", "b", "u", "m">>
PatternPlain == <<"p", "h", "o", "t", "o", "s">>
Patterns == {PatternDateAlbum, PatternAlbum, PatternPlain}
Configs == {[base_path |-> "/t", file_path_pattern |-> pat] : pat \in Patterns}

(***************************************************************************)
(* elodie.py: import_file                                                  *)
(***************************************************************************)
\* parameters of FileSystem.execute_manifest (filesystem.py:314) and the
\* keyword arguments of the call at elodie.py:84; a keyword that is not a
\* parameter makes the call raise TypeError before the body runs
execute_manifest_params == {"self", "source_path", "manifest_entry", "base_path"}
import_file_call_keywords == {"move_not_copy"}
CallBinds == import_file_call_keywords \subseteq execute_manifest_params

\* an assignment in place of the merge
merge_replace(manifest_entries, manifest_entry) == manifest_entry
\* a shallow dict.update in place of the deep merge
merge_shallow(manifest_entries, manifest_entry) ==
    Map([k \in Keys(manifest_entries) \cup Keys(manifest_entry) |->
            IF k \in Keys(manifest_entry) THEN manifest_entry.m[k]
            ELSE manifest_entries.m[k]])
\* manifest.py: Manifest.merge
merge(manifest_entries, manifest_entry) == deep_merge(manifest_entries, manifest_entry)

\* the flag tested the wrong way round
skip_duplicate_inverted(allow_duplicates, is_duplicate) == allow_duplicates /\ is_duplicate
\* the duplicate test dropped
skip_duplicate_never(allow_duplicates, is_duplicate) == FALSE
\* elodie.py:76, `if (not allow_duplicates) and is_duplicate`
skip_duplicate(allow_duplicates, is_duplicate) == (~allow_duplicates) /\ is_duplicate

\* every extension taken for a media file
has_media_class_any(file_path) == TRUE
\* lines 61-64: Media.get_class_by_file finds a handler for the extension
has_media_class(file_path) == file_path \in SupportedPaths

\* in: the state the call reads; io: outcome of the copy; rd: whether
\* Manifest.checksum can read the file
import_file(file_path, cfg, in, move, allow_duplicates, dryrun, rd, io) ==
    LET unchanged == [result |-> "None", entries |-> in.entries, cache |-> in.cache,
                      dst |-> in.dst, dirs |-> in.dirs, merged |-> FALSE,
                      is_duplicate |-> FALSE, placement |-> "none"]
        placed(recorded, ex) ==
            [recorded EXCEPT !.result = ex.result, !.dst = ex.dst, !.dirs = ex.dirs,
                             !.placement = ex.result]
        decide(recorded, manifest_entry) ==
            IF skip_duplicate(allow_duplicates, recorded.is_duplicate)
            THEN [recorded EXCEPT !.result = "True"]
            ELSE IF dryrun
            THEN [recorded EXCEPT !.result = "True"]
            ELSE IF ~CallBinds
            THEN [recorded EXCEPT !.result = "raise", !.placement = "raise"]
            ELSE placed(recorded, execute_manifest(file_path, manifest_entry, in.src,
                                                   in.dst, in.dirs, io))
        record(sum, is_duplicate, gm) ==
            IF gm.raised
            THEN [unchanged EXCEPT !.result = "raise", !.cache = gm.cache,
                                   !.is_duplicate = is_duplicate]
            ELSE decide([unchanged EXCEPT
                            !.entries = merge(in.entries, Map([k \in {sum} |-> gm.value])),
                            !.cache = gm.cache, !.merged = TRUE,
                            !.is_duplicate = is_duplicate],
                        gm.value)
        known(sum) ==
            record(sum, sum \in Keys(in.entries),
                   generate_manifest(file_path, cfg, metadata_of(file_path), in.cache))
    IN  IF ~IsFile(in.src, file_path) THEN unchanged
        ELSE IF ~has_media_class(file_path) THEN unchanged
        ELSE IF ~rd THEN [unchanged EXCEPT !.result = "raise"]
        ELSE known(checksum(in.src[file_path]))

(***************************************************************************)
(* manifest.py: Manifest.load_from_file / Manifest.write.  The manifest    *)
(* files on disk are keyed by their timestamp suffix: <<>> is the          *)
(* manifest's own path, <<n>> the sibling written at second n.             *)
(***************************************************************************)
\* json.dump followed by json.load: a tuple comes back as a list
RECURSIVE JsonRoundTrip(_)
JsonRoundTrip(x) ==
    IF IsMapping(x) THEN Map([k \in Keys(x) |-> JsonRoundTrip(x.m[k])])
    ELSE IF x.t = "tuple" THEN [t |-> "list", v |-> x.v]
    ELSE x

OwnPath == <<>>
\* files after load_from_file: a missing manifest file is created empty
load_from_file(files) ==
    IF OwnPath \in DOMAIN files THEN files
    ELSE [x \in DOMAIN files \cup {OwnPath} |-> IF x = OwnPath THEN EmptyMap ELSE files[x]]

\* a write that leaves the files as they were
write_nothing(files, value, overwrite, stamp) == files
\* files after write(overwrite=...) at second stamp
write(files, value, overwrite, stamp) ==
    LET write_path == IF overwrite THEN OwnPath ELSE <<stamp>>
    IN  [x \in DOMAIN files \cup {write_path} |->
            IF x = write_path THEN JsonRoundTrip(value) ELSE files[x]]

(***************************************************************************)
(* State                                                                   *)
(***************************************************************************)
\* stands for constants.exiftool_batch_size (50 in constants.py)
exiftool_batch_size == 3
MaxRuns == 2
MaxStamp == 2
MaxIoErrors == 1

VARIABLES
    src,            \* source tree: path -> content
    dst,            \* target tree: [dir, name] -> content
    dirs,           \* directories below the target base path
    disk,           \* manifest files on disk
    elodie_dir,     \* the .elodie log directory exists
    entries,        \* Manifest.entries
    cache,          \* FILESYSTEM.cached_folder_path_definition
    config,         \* config["targets"][0]
    opts,           \* the command-line flags of the current run
    pc,             \* position in _import
    file_generator, \* files the scan has not yet yielded
    file_batch,     \* files of the current batch not yet visited
    has_errors,
    exit_status,    \* -1 while the process runs
    now,            \* the clock, in seconds
    run,            \* number of import runs started
    io_errors,      \* number of reads and copies that failed so far
    processed,      \* files passed to import_file in this run, in order
    imported,       \* files whose manifest entry import_file has generated
    clean,          \* the run met no I/O error, failed extraction or interrupt so far
    metadata_list,  \* get_metadata_batch returned a non-empty list for the current batch
    writes,         \* number of manifest.write calls this run has completed
    ended,          \* how the run ended, "" while it is under way
    last            \* the last import_file / execute_manifest call

vars == <<src, dst, dirs, disk, elodie_dir, entries, cache, config, opts, pc,
          file_generator, file_batch, has_errors, exit_status, now, run,
          io_errors, processed, imported, clean, metadata_list, writes, ended, last>>

NoCall == [op |-> "none", file_path |-> "", move |-> FALSE, allow_duplicates |-> FALSE,
           dryrun |-> FALSE, io |-> "ok", result |-> "None", is_duplicate |-> FALSE,
           merged |-> FALSE, placement |-> "none", repeat |-> FALSE]

NoOpts == [move |-> FALSE, allow_duplicates |-> FALSE, dryrun |-> FALSE,
           no_overwrite_manifest |-> FALSE]
OptsSet == [move : BOOLEAN, allow_duplicates : BOOLEAN, dryrun : BOOLEAN,
            no_overwrite_manifest : BOOLEAN]

\* Python truthiness of an import result
ResultTruthy(r) == r = "True"

\* the state import_file reads
Reads == [entries |-> entries, cache |-> cache, src |-> src, dst |-> dst, dirs |-> dirs]

\* the record of a call of import_file that returned r
CallRecord(f, move, ad, dry, io, r) ==
    [op |-> "import_file", file_path |-> f, move |-> move, allow_duplicates |-> ad,
     dryrun |-> dry, io |-> io, result |-> r.result, is_duplicate |-> r.is_duplicate,
     merged |-> r.merged, placement |-> r.placement,
     \* the call before was an import of the same file that recorded it
     repeat |-> (last.op = "import_file" /\ last.file_path = f /\ last.merged)]

\* the outcomes the copy of a call of import_file can have: the copy is
\* reached only when the call of execute_manifest binds
ReachableCopyOutcomes == IF CallBinds THEN CopyOutcomes ELSE {"ok"}

InitCommon ==
    /\ src = InitialSource
    /\ dst = <<>>
    /\ dirs = {}
    /\ disk = <<>>
    /\ elodie_dir = FALSE
    /\ entries = EmptyMap
    /\ cache = NoCache
    /\ config \in Configs
    /\ opts = NoOpts
    /\ pc = "idle"
    /\ file_generator = <<>>
    /\ file_batch = <<>>
    /\ has_errors = FALSE
    /\ exit_status = -1
    /\ now = 0
    /\ run = 0
    /\ io_errors = 0
    /\ processed = <<>>
    /\ imported = {}
    /\ clean = TRUE
    /\ metadata_list = FALSE
    /\ writes = 0
    /\ ended = ""
    /\ last = NoCall

(***************************************************************************)
(* Direct calls of import_file on one Manifest object, as a library user   *)
(* or a test makes them.                                                   *)
(***************************************************************************)
ImportFileCall(f, move, ad, dry, rd, io) ==
    /\ \E r \in {import_file(f, config, Reads, move, ad, dry, rd, io)} :
           /\ entries' = r.entries
           /\ cache' = r.cache
           /\ dst' = r.dst
           /\ dirs' = r.dirs
           /\ last' = CallRecord(f, move, ad, dry, io, r)
           /\ imported' = IF r.merged THEN imported \cup {f} ELSE imported
    /\ UNCHANGED <<src, disk, elodie_dir, config, opts, pc, file_generator, file_batch,
                   has_errors, exit_status, now, run, io_errors, processed, clean,
                   metadata_list, writes, ended>>

NextImportFile ==
    \E f \in SourcePaths, move \in BOOLEAN, ad \in BOOLEAN, dry \in BOOLEAN,
       rd \in BOOLEAN, io \in ReachableCopyOutcomes :
        ImportFileCall(f, move, ad, dry, rd, io)

SpecImportFile == InitCommon /\ [][NextImportFile]_vars
(***************************************************************************)
(* Direct calls of FileSystem.execute_manifest with the entry that         *)
(* generate_manifest computes for the source file.                         *)
(***************************************************************************)
\* the source files generate_manifest yields an entry for
Resolvable(f, cfg) == ~generate_manifest(f, cfg, metadata_of(f), NoCache).raised
EntryOf(f, cfg) == generate_manifest(f, cfg, metadata_of(f), NoCache).value
\* the destination os.path.join(base_path, target.path, target.name)
TargetDest(target) == Dest(target.m["path"].v, target.m["name"].v)
DestinationOf(f, cfg) == TargetDest(EntryOf(f, cfg).m["target"])

ExecuteManifestCall(f, io) ==
    /\ Resolvable(f, config)
    /\ io # "ok" => io_errors < MaxIoErrors
    /\ io_errors' = IF io = "ok" THEN io_errors ELSE io_errors + 1
    /\ \E ex \in {execute_manifest(f, EntryOf(f, config), src, dst, dirs, io)} :
           /\ dst' = ex.dst
           /\ dirs' = ex.dirs
           /\ last' = [NoCall EXCEPT !.op = "execute_manifest", !.file_path = f,
                                     !.io = io, !.result = ex.result,
                                     !.placement = ex.result]
    /\ UNCHANGED <<src, disk, elodie_dir, entries, cache, config, opts, pc,
                   file_generator, file_batch, has_errors, exit_status, now, run,
                   processed, imported, clean, metadata_list, writes, ended>>

NextExecute == \E f \in SupportedPaths, io \in CopyOutcomes : ExecuteManifestCall(f, io)

SpecExecute == InitCommon /\ [][NextExecute]_vars

(***************************************************************************)
(* elodie.py: _import, one action per step of the command.                 *)
(***************************************************************************)
Take(q, n) == SubSeq(q, 1, IF Len(q) < n THEN Len(q) ELSE n)
\* islice that loses the file after the batch
DropSkipping(q, n) == SubSeq(q, (IF Len(q) < n + 1 THEN Len(q) ELSE n + 1) + 1, Len(q))
Drop(q, n) == SubSeq(q, (IF Len(q) < n THEN Len(q) ELSE n) + 1, Len(q))

\* lines 118-160: a new process loads the config and the manifest, creates
\* the log directory, installs the SIGINT handler and starts the scan
StartRun(o) ==
    /\ pc \in {"idle", "exited"}
    /\ run < MaxRuns
    /\ run' = run + 1
    /\ opts' = o
    /\ disk' = load_from_file(disk)
    /\ entries' = disk'[OwnPath]
    /\ elodie_dir' = TRUE
    /\ cache' = NoCache
    /\ has_errors' = FALSE
    /\ exit_status' = -1
    /\ file_generator' = ScanOrder
    /\ file_batch' = <<>>
    /\ processed' = <<>>
    /\ imported' = {}
    /\ clean' = TRUE
    /\ metadata_list' = FALSE
    /\ writes' = 0
    /\ ended' = ""
    /\ last' = NoCall
    /\ pc' = "batch"
    /\ UNCHANGED <<src, dst, dirs, config, now, io_errors>>

\* the test dropped: the batch is processed without metadata
not_metadata_list_ignored(extracted) == FALSE
\* line 171, `if not metadata_list`
not_metadata_list(extracted) == ~extracted

\* lines 164-174: the next batch and its metadata extraction; extracted is
\* whether get_metadata_batch returned a non-empty list
NextBatch(extracted) ==
    /\ pc = "batch"
    /\ \E batch \in {Take(file_generator, exiftool_batch_size)} :
           IF Len(batch) = 0
           THEN /\ pc' = "write"
                /\ UNCHANGED <<file_generator, file_batch, exit_status, clean,
                               metadata_list, ended>>
           ELSE /\ file_generator' = Drop(file_generator, exiftool_batch_size)
                /\ metadata_list' = extracted
                /\ IF ~not_metadata_list(extracted)
                   THEN /\ file_batch' = batch
                        /\ pc' = "files"
                        /\ UNCHANGED <<exit_status, clean, ended>>
                   ELSE \* raise Exception("Metadata scrape failed.")
                        /\ file_batch' = batch
                        /\ pc' = "exited"
                        /\ exit_status' = 1
                        /\ clean' = FALSE
                        /\ ended' = "extraction"
    /\ UNCHANGED <<src, dst, dirs, disk, elodie_dir, entries, cache, config, opts,
                   has_errors, now, run, io_errors, processed, imported, writes, last>>

\* after the last file of a batch the while loop fetches the next batch
AfterFile(rest) == IF Len(rest) = 0 THEN "batch" ELSE "files"

\* lines 177-178: the localized config file is skipped
SkipSidecar ==
    /\ pc = "files"
    /\ IsSidecar(Head(file_batch))
    /\ file_batch' = Tail(file_batch)
    /\ pc' = AfterFile(Tail(file_batch))
    /\ UNCHANGED <<src, dst, dirs, disk, elodie_dir, entries, cache, config, opts,
                   file_generator, has_errors, exit_status, now, run, io_errors,
                   processed, imported, clean, metadata_list, writes, ended, last>>

\* no handler around the call: the exception leaves the loop
Uncaught(result) == result
\* lines 181-183: `except Exception` turns a raise into result = False
Caught(result) == IF result = "raise" THEN "False" ELSE result

\* lines 179-184: one iteration of `for current_file in file_batch`
ImportStep(rd, io) ==
    /\ pc = "files"
    /\ ~IsSidecar(Head(file_batch))
    /\ (~rd \/ io # "ok") => io_errors < MaxIoErrors
    /\ io_errors' = IF rd /\ io = "ok" THEN io_errors ELSE io_errors + 1
    /\ \E current_file \in {Head(file_batch)} :
       \E r \in {import_file(current_file, config, Reads, opts.move,
                             opts.allow_duplicates, opts.dryrun, rd, io)} :
           /\ entries' = r.entries
           /\ cache' = r.cache
           /\ dst' = r.dst
           /\ dirs' = r.dirs
           /\ has_errors' = (has_errors \/ ~ResultTruthy(Caught(r.result)))
           \* an exception that leaves the loop ends the process with status 1
           /\ pc' = IF Caught(r.result) = "raise" THEN "exited"
                    ELSE AfterFile(Tail(file_batch))
           /\ exit_status' = IF Caught(r.result) = "raise" THEN 1 ELSE exit_status
           /\ ended' = IF Caught(r.result) = "raise" THEN "exception" ELSE ended
           /\ last' = CallRecord(current_file, opts.move, opts.allow_duplicates,
                                 opts.dryrun, io, r)
           /\ processed' = Append(processed, current_file)
           /\ imported' = IF r.merged THEN imported \cup {current_file} ELSE imported
           /\ clean' = (clean /\ (rd \/ ~IsFile(src, current_file)
                                     \/ current_file \notin SupportedPaths)
                              /\ io = "ok")
    /\ file_batch' = Tail(file_batch)
    /\ UNCHANGED <<src, disk, elodie_dir, config, opts, file_generator, now, run,
                   metadata_list, writes>>

\* line 187: manifest.write(indent, overwrite=not no_overwrite_manifest);
\* written is whether the file could be written at second stamp
WriteManifest(written, stamp) ==
    /\ pc = "write"
    /\ stamp >= now
    /\ now' = stamp
    /\ IF written
       THEN /\ disk' = write(disk, entries, ~opts.no_overwrite_manifest, stamp)
            /\ writes' = writes + 1
            /\ pc' = "finish"
            /\ UNCHANGED <<exit_status, clean, ended>>
       ELSE /\ pc' = "exited"
            /\ exit_status' = 1
            /\ clean' = FALSE
            /\ ended' = "write_error"
            /\ UNCHANGED <<disk, writes>>
    /\ UNCHANGED <<src, dst, dirs, elodie_dir, entries, cache, config, opts,
                   file_generator, file_batch, has_errors, run, io_errors, processed,
                   imported, metadata_list, last>>

\* lines 189-206: statistics, log.write, exit status
Finish ==
    /\ pc = "finish"
    /\ pc' = "exited"
    /\ exit_status' = IF has_errors THEN 1 ELSE 0
    /\ ended' = "done"
    /\ UNCHANGED <<src, dst, dirs, disk, elodie_dir, entries, cache, config, opts,
                   file_generator, file_batch, has_errors, now, run, io_errors,
                   processed, imported, clean, metadata_list, writes, last>>

\* lines 141-146: SIGINT while the handler is installed
signal_handler ==
    /\ pc \in {"batch", "files", "write", "finish"}
    /\ pc' = "exited"
    /\ exit_status' = 0
    /\ clean' = FALSE
    /\ ended' = "interrupt"
    /\ UNCHANGED <<src, dst, dirs, disk, elodie_dir, entries, cache, config, opts,
                   file_generator, file_batch, has_errors, now, run, io_errors,
                   processed, imported, metadata_list, writes, last>>

Init == InitCommon

Next ==
    \/ \E o \in OptsSet : StartRun(o)
    \/ \E extracted \in BOOLEAN : NextBatch(extracted)
    \/ SkipSidecar
    \/ \E rd \in BOOLEAN, io \in ReachableCopyOutcomes : ImportStep(rd, io)
    \/ \E written \in BOOLEAN, stamp \in 0..MaxStamp : WriteManifest(written, stamp)
    \/ Finish
    \/ signal_handler

Spec == Init /\ [][Next]_vars
(***************************************************************************)
(* Properties                                                              *)
(***************************************************************************)
\* sources recorded under a checksum
SourcesOf(sum) == IF sum \in Keys(entries) /\ "sources" \in Keys(entries.m[sum])
                  THEN Keys(entries.m[sum].m["sources"]) ELSE {}
ChecksumOf(f) == checksum(src[f])

C3_SecondImportIdempotent ==
    [][(last'.op = "import_file" /\ last'.repeat /\ ~last'.allow_duplicates)
        => (entries' = entries /\ last'.placement = "none" /\ dst' = dst /\ dirs' = dirs)]_vars

C3_Witness ==
    /\ last.op = "import_file" /\ last.repeat /\ ~last.allow_duplicates
    /\ last.is_duplicate /\ last.merged /\ last.result = "True"

C2_WriteThenRecord ==
    [][(/\ last'.op = "import_file" /\ ~last'.dryrun /\ ~last'.is_duplicate
        /\ last'.placement \in {"raise", "False"})
        => ChecksumOf(last'.file_path) \notin Keys(entries')]_vars

\* the hash-named sibling of a target
SiblingDest(target, ne, content) ==
    Dest(target.m["path"].v, name_with_hash(ne[1], HexDigest(content), ne[2]))
SiblingOf(f, cfg) ==
    SiblingDest(EntryOf(f, cfg).m["target"],
                SplitExt(EntryOf(f, cfg).m["target"].m["name"].v), src[f])

\* C5: over any sequence of execute_manifest calls a file present at a
\* destination path keeps its content; when the destination holds content
\* other than the source's and the copy works, the source is copied to
\* <name>.<source checksum><ext> beside it and True is returned; when the
\* contents are identical nothing is written and True is returned.
C5_NeverOverwritesDivergent ==
    [][last'.op = "execute_manifest" =>
        /\ \A g \in SupportedPaths :
              Resolvable(g, config) =>
                 \E d \in {DestinationOf(g, config)} :
                    IsFile(dst, d) => (IsFile(dst', d) /\ dst'[d] = dst[d])
        /\ \E f \in {last'.file_path} : \E d \in {DestinationOf(f, config)} :
              (IsFile(dst, d) /\ IsFile(src, f)) =>
                 IF dst[d] = src[f]
                 THEN dst' = dst /\ dirs' = dirs /\ last'.result = "True"
                 ELSE last'.io = "ok" =>
                        \E sib \in {SiblingOf(f, config)} :
                           /\ last'.result = "True"
                           /\ IsFile(dst', sib) /\ dst'[sib] = src[f]
                           /\ sib # d]_vars

\* a source was copied beside an occupied destination of different content
C5_Witness ==
    /\ last.op = "execute_manifest" /\ last.result = "True" /\ last.io = "ok"
    /\ IsFile(src, last.file_path)
    /\ \E d \in {DestinationOf(last.file_path, config)} :
          /\ IsFile(dst, d) /\ dst[d] # src[last.file_path]
          /\ \E sib \in {SiblingOf(last.file_path, config)} :
                IsFile(dst, sib) /\ dst[sib] = src[last.file_path]

\* the existing, supported source files whose folder path resolves
Placeable == {f \in SupportedPaths : IsFile(src, f) /\ Resolvable(f, config)}
\* f's content is at its destination or at the hash-named sibling
Placed(f) ==
    \/ \E d \in {DestinationOf(f, config)} : IsFile(dst, d) /\ dst[d] = src[f]
    \/ \E sib \in {SiblingOf(f, config)} : IsFile(dst, sib) /\ dst[sib] = src[f]

\* C6 (as stated): a later run with the same config and manifest file,
\* allow_duplicates=false and no I/O error, once it has completed, has placed
\* every existing, supported source file an earlier run left unplaced.
C6_RerunPlacesFile ==
    (/\ pc = "exited" /\ exit_status # -1 /\ run >= 2 /\ clean
     /\ ~opts.dryrun /\ ~opts.allow_duplicates)
        => \A f \in Placeable : Placed(f)

\* C7 (as stated): while a run with dryrun set is under way no file is copied
\* or moved, no destination directory is created, the manifest file is not
\* saved, and import_file returns success for every existing, supported file
\* (that it can read and whose folder path resolves).
C7_DryRunTouchesNothing ==
    [][(opts.dryrun /\ pc \in {"batch", "files", "write", "finish"}) =>
        /\ dst' = dst /\ dirs' = dirs /\ src' = src
        /\ disk' = disk
        /\ (/\ Len(processed') > Len(processed)
            /\ io_errors' = io_errors
            /\ last'.file_path \in Placeable) => last'.result = "True"]_vars

\* C8 (as stated): an import of a new file into an unoccupied destination
\* whose copy meets no I/O error leaves the file at the destination with the
\* source's content; with the move option the source path no longer exists,
\* without it the source still exists.
C8_MoveMovesFile ==
    [][(/\ last'.op = "import_file" /\ last'.merged /\ ~last'.dryrun
        /\ ~last'.is_duplicate /\ last'.io = "ok"
        /\ ~IsFile(dst, DestinationOf(last'.file_path, config)))
        => \E f \in {last'.file_path} : \E d \in {DestinationOf(f, config)} :
              /\ IsFile(dst', d) /\ dst'[d] = src[f]
              /\ IsFile(src', f) = ~last'.move]_vars

NonSidecar(q) == SelectSeq(q, LAMBDA p : ~IsSidecar(p))

\* C9: a failed file never ends the run: after every call of import_file the
\* loop goes on with the rest of the batch, and while the run is under way
\* the files passed to import_file followed by the files still to come are
\* all the scanned files except the localized config files.
C9_FailureNeverAborts ==
    /\ [](pc \in {"batch", "files", "write", "finish"} =>
             processed \o NonSidecar(file_batch \o file_generator) = NonSidecar(ScanOrder))
    /\ [][Len(processed') > Len(processed) =>
             (pc' \in {"files", "batch"} /\ exit_status' = -1)]_vars

\* the loop has ended after a missing file, an unsupported file and a raised
\* exception, and every file was passed to import_file
C9_Witness ==
    /\ pc = "write" /\ has_errors /\ ~opts.dryrun
    /\ processed = NonSidecar(ScanOrder)
    /\ last.op = "import_file" /\ last.file_path = "/s/e/notes.xyz"

\* C10 (as stated): a run that has terminated after a failed file has a
\* nonzero exit status, and the failure flag, once set, stays set while the
\* run is under way.
C10_ExitStatusReflectsFailures ==
    /\ []((pc = "exited" /\ has_errors) => exit_status # 0)
    /\ [][(has_errors /\ pc \in {"batch", "files", "write", "finish"})
             => has_errors']_vars

\* the path the run's manifest.write writes to
WritePath == IF opts.no_overwrite_manifest THEN <<now>> ELSE OwnPath

\* C11: a run that reaches the end of the file stream has written the
\* manifest exactly once, with the entries as they are after the last file;
\* no write happens while files are still to be processed, whether or not a
\* file failed.
C11_WritesManifestOnce ==
    /\ [](pc \in {"batch", "files", "write"} => writes = 0)
    /\ []((pc = "finish" \/ ended = "done") =>
             /\ writes = 1
             /\ processed = NonSidecar(ScanOrder)
             /\ WritePath \in DOMAIN disk
             /\ disk[WritePath] = JsonRoundTrip(entries))
    /\ [][writes' = writes + 1 =>
             (pc = "write" /\ file_batch = <<>> /\ file_generator = <<>>)]_vars

\* a run in which files failed has ended after its single write
C11_Witness ==
    /\ ended = "done" /\ has_errors /\ writes = 1
    /\ Keys(entries) # {}

\* C12 (as stated): when an interrupt has ended the run, the entries merged
\* so far are in a manifest file on disk.
C12_InterruptPersistsManifest ==
    ended = "interrupt" => \E x \in DOMAIN disk : disk[x] = JsonRoundTrip(entries)

\* the pattern has a `%` token
HasToken(pattern) == Len(FindParts(pattern, 1)) > 0

\* C13 (as stated): with a file_path_pattern that has no `%` token the run
\* aborts before any filesystem mutation: no file is copied, no directory is
\* created, no manifest or log file is created or written, and the run never
\* completes.
C13_BadPatternAborts ==
    ~HasToken(config.file_path_pattern) =>
        /\ dst = <<>> /\ dirs = {}
        /\ disk = <<>> /\ ~elodie_dir
        /\ pc \notin {"write", "finish"} /\ ended # "done"

Elements(q) == {q[i] : i \in DOMAIN q}

\* C14: when the metadata extraction of a batch returns nothing the run
\* ends there with a nonzero status: files are only visited with metadata at
\* hand, the failing step changes neither manifest nor file system, and no
\* file of the failed batch or of a later batch has been passed to
\* import_file.
C14_FailedExtractionAborts ==
    /\ [](pc = "files" => metadata_list)
    /\ [](ended = "extraction" =>
             /\ pc = "exited" /\ exit_status = 1 /\ writes = 0
             /\ Elements(processed) \cap Elements(file_batch \o file_generator) = {})
    /\ [][(pc = "batch" /\ file_generator' # file_generator /\ ~metadata_list') =>
             /\ pc' = "exited"
             /\ entries' = entries /\ cache' = cache /\ imported' = imported
             /\ processed' = processed
             /\ dst' = dst /\ dirs' = dirs /\ disk' = disk /\ src' = src]_vars

\* the extraction of a later batch failed after files of an earlier batch
\* were imported
C14_Witness ==
    /\ ended = "extraction" /\ Len(processed) > 0 /\ Len(file_batch) > 0

\* C15: a call of import_file on a path that does not exist, or whose
\* extension has no media handler, returns None (a failure value) and leaves
\* the manifest entries, the cached definition and every file and directory
\* as they were.
C15_MissingOrUnsupported ==
    [][(/\ last'.op = "import_file"
        /\ (~IsFile(src, last'.file_path) \/ last'.file_path \notin SupportedPaths))
        => /\ last'.result = "None" /\ ~ResultTruthy(last'.result)
           /\ ~last'.merged
           /\ entries' = entries /\ cache' = cache
           /\ src' = src /\ dst' = dst /\ dirs' = dirs /\ disk' = disk]_vars

\* an unsupported file was refused after another file had been recorded
C15_Witness ==
    /\ last.op = "import_file" /\ last.file_path = "/s/e/notes.xyz"
    /\ IsFile(src, last.file_path)
    /\ last.result = "None"
    /\ Keys(entries) # {}

\* sources recorded under a checksum in the entries e
SourcesIn(e, sum) == IF sum \in Keys(e) /\ IsMapping(e.m[sum])
                        /\ "sources" \in Keys(e.m[sum])
                        /\ IsMapping(e.m[sum].m["sources"])
                     THEN Keys(e.m[sum].m["sources"]) ELSE {}

\* C16: over any sequence of import_file calls no checksum key leaves the
\* manifest and no source path leaves the sources recorded under a key.
C16_ManifestOnlyGrows ==
    [][\A sum \in Keys(entries) :
          /\ sum \in Keys(entries')
          /\ SourcesIn(entries, sum) \subseteq SourcesIn(entries', sum)]_vars

\* a call added a source to a known checksum while another checksum was
\* recorded
C16_Witness ==
    /\ last.op = "import_file" /\ last.merged /\ last.is_duplicate
    /\ Cardinality(Keys(entries)) >= 2
    /\ \E sum \in Keys(entries) : Cardinality(SourcesIn(entries, sum)) >= 2

(***************************************************************************)
(* Direct calls of Manifest.merge on one Manifest object.  Entries and     *)
(* partials are the mappings over the keys a and b in which a holds a     *)
(* scalar or a mapping of a and b to scalars or {}, and b holds a scalar. *)
(***************************************************************************)
MergeKeys == {"a", "b"}
MergeLeaves == {Str("x"), Str("y")}
\* the mappings that give some of the keys k of vals a value of vals[k]
MapsWith(vals) ==
    UNION {{Map(f) : f \in {g \in [ks -> UNION {vals[k] : k \in ks}] :
                               \A k \in ks : g[k] \in vals[k]}} :
           ks \in SUBSET DOMAIN vals}
FlatMaps == MapsWith([k \in MergeKeys |-> MergeLeaves \cup {EmptyMap}])
NestedMaps == MapsWith([k \in MergeKeys |-> IF k = "a" THEN MergeLeaves \cup FlatMaps
                                            ELSE MergeLeaves])

InitMerge ==
    /\ entries \in NestedMaps
    /\ src = InitialSource
    /\ dst = <<>>
    /\ dirs = {}
    /\ disk = <<>>
    /\ elodie_dir = FALSE
    /\ cache = NoCache
    /\ config = [base_path |-> "/t", file_path_pattern |-> PatternDateAlbum]
    /\ opts = NoOpts
    /\ pc = "idle"
    /\ file_generator = <<>>
    /\ file_batch = <<>>
    /\ has_errors = FALSE
    /\ exit_status = -1
    /\ now = 0
    /\ run = 0
    /\ io_errors = 0
    /\ processed = <<>>
    /\ imported = {}
    /\ clean = TRUE
    /\ metadata_list = FALSE
    /\ writes = 0
    /\ ended = ""
    /\ last = NoCall

\* manifest.py:56-57, self.entries = deep_merge(self.entries, manifest_entry)
MergeCall(manifest_entry) ==
    /\ entries' = merge(entries, manifest_entry)
    /\ last' = [op |-> "merge", partial |-> manifest_entry]
    /\ UNCHANGED <<src, dst, dirs, disk, elodie_dir, cache, config, opts, pc,
                   file_generator, file_batch, has_errors, exit_status, now, run,
                   io_errors, processed, imported, clean, metadata_list, writes, ended>>

NextMerge == \E manifest_entry \in NestedMaps : MergeCall(manifest_entry)

SpecMerge == InitMerge /\ [][NextMerge]_vars

\* the deep merge as stated: a key of u whose values in d and u are both
\* mappings is merged recursively, any other key of u takes u's value, and a
\* key u does not mention keeps d's value
RECURSIVE DeepMergeStated(_, _)
DeepMergeStated(d, u) ==
    Map([k \in Keys(d) \cup Keys(u) |->
            IF k \notin Keys(u) THEN d.m[k]
            ELSE IF k \in Keys(d) /\ IsMapping(d.m[k]) /\ IsMapping(u.m[k])
                 THEN DeepMergeStated(d.m[k], u.m[k])
                 ELSE u.m[k]])

\* C17 (as stated): Manifest.merge(partial) leaves the entries equal to the
\* deep merge of the previous entries and partial.
C17_MergeIsDeepMerge ==
    [][last'.op = "merge" => entries' = DeepMergeStated(entries, last'.partial)]_vars

\* C18 (as stated): once the run has merged its entries and written them to
\* the manifest's own path, loading that path yields a mapping equal to the
\* entries in memory.
C18_WriteLoadRoundTrip ==
    (pc = "finish" /\ ~opts.no_overwrite_manifest)
        => load_from_file(disk)[OwnPath] = entries

\* the timestamped siblings of the manifest file
Snapshots(files) == DOMAIN files \ {OwnPath}

\* C19 (as stated): a write with overwrite=false leaves the file at the
\* manifest's own path as it was, writes the entries to the sibling named by
\* the second of the write, and keeps every snapshot of an earlier write; a
\* write with overwrite=true writes the manifest's own path.
C19_NonOverwriteKeepsSnapshots ==
    [][writes' = writes + 1 =>
        IF opts.no_overwrite_manifest
        THEN /\ disk'[OwnPath] = disk[OwnPath]
             /\ <<now'>> \in Snapshots(disk')
             /\ disk'[<<now'>>] = JsonRoundTrip(entries)
             /\ \A x \in Snapshots(disk) : x \in Snapshots(disk') /\ disk'[x] = disk[x]
        ELSE /\ disk'[OwnPath] = JsonRoundTrip(entries)
             /\ \A x \in Snapshots(disk) : x \in Snapshots(disk') /\ disk'[x] = disk[x]]_vars

(***************************************************************************)
(* Direct calls of FileSystem.get_folder_path_definition on one           *)
(* FileSystem object, with patterns of one or two segments.               *)
(***************************************************************************)
PatternSegments == {<<"%", "d", "a", "t", "e">>,
                    <<"%", "a", "l", "b", "u", "m">>,
                    <<"%", "c", "i", "t", "y", "|", "\"", "U", "\"">>,
                    <<"p", "h", "o", "t", "o", "s">>}
DefinitionPatterns ==
    PatternSegments \cup {a \o <<"/">> \o b : a \in PatternSegments, b \in PatternSegments}

DefinitionCall(pattern) ==
    /\ \E r \in {get_folder_path_definition(cache, pattern)} :
           /\ cache' = r.cache
           /\ last' = [op |-> "get_folder_path_definition", pattern |-> pattern,
                       raised |-> r.raised, value |-> r.value]
    /\ UNCHANGED <<src, dst, dirs, disk, elodie_dir, entries, config, opts, pc,
                   file_generator, file_batch, has_errors, exit_status, now, run,
                   io_errors, processed, imported, clean, metadata_list, writes, ended>>

NextDefinition == \E pattern \in DefinitionPatterns : DefinitionCall(pattern)

SpecDefinition == InitCommon /\ [][NextDefinition]_vars

\* C20 (as stated): every call of get_folder_path_definition returns the
\* segments parsed from its own pattern, whatever was asked before, and
\* raises when its pattern has no `%` token.
C20_DefinitionDependsOnPattern ==
    last.op = "get_folder_path_definition" =>
        IF HasToken(last.pattern)
        THEN /\ ~last.raised
             /\ last.value = get_folder_path_definition(NoCache, last.pattern).value
        ELSE last.raised

(***************************************************************************)
(* Direct calls of FileSystem.get_folder_path on one FileSystem object    *)
(* with the pattern of the configured target.                             *)
(***************************************************************************)
\* '%date/%date/%album'
PatternDateDateAlbum ==
    <<"%", "d", "a", "t", "e", "/", "%", "d", "a", "t", "e", "/", "%", "a", "l", "b", "u", "m">>
\* '%album|%city|"Unknown"'
PatternAlbumCityUnknown ==
    <<"%", "a", "l", "b", "u", "m", "|", "%", "c", "i", "t", "y", "|",
      "\"", "U", "n", "k", "n", "o", "w", "n", "\"">>
\* '%album|"A"|%origin'
PatternAlbumLiteralOrigin ==
    <<"%", "a", "l", "b", "u", "m", "|", "\"", "A", "\"", "|", "%", "o", "r", "i", "g", "i", "n">>
\* '%year/%origin|%album'
PatternYearOriginAlbum ==
    <<"%", "y", "e", "a", "r", "/", "%", "o", "r", "i", "g", "i", "n", "|", "%", "a", "l", "b", "u", "m">>
FolderPatterns == {PatternDateDateAlbum, PatternAlbumCityUnknown, PatternAlbumLiteralOrigin,
                   PatternYearOriginAlbum, PatternDateAlbum, PatternAlbum}

\* the metadata records of the calls; city is a location field the media
\* classes deliver beside the fields of metadata_of
FolderMetadata ==
    {[date_taken |-> dt, original_name |-> <<>>, title |-> <<>>, album |-> al,
      camera_make |-> <<>>, camera_model |-> <<>>, origin |-> og, city |-> ci,
      extension |-> <<"j", "p", "g">>, base_name |-> <<"I", "M", "G", "1">>] :
        dt \in {<<>>, <<Time1>>},
        al \in {<<>>, << <<>> >>, << <<"T", "r", "i", "p">> >>},
        og \in {<<>>, << <<"s", "c", "n">> >>},
        ci \in {<<>>, << <<"P", "a", "r", "i", "s">> >>}}

InitFolderPath ==
    /\ config \in {[base_path |-> "/t", file_path_pattern |-> pat] : pat \in FolderPatterns}
    /\ entries = EmptyMap
    /\ src = InitialSource
    /\ dst = <<>>
    /\ dirs = {}
    /\ disk = <<>>
    /\ elodie_dir = FALSE
    /\ cache = NoCache
    /\ opts = NoOpts
    /\ pc = "idle"
    /\ file_generator = <<>>
    /\ file_batch = <<>>
    /\ has_errors = FALSE
    /\ exit_status = -1
    /\ now = 0
    /\ run = 0
    /\ io_errors = 0
    /\ processed = <<>>
    /\ imported = {}
    /\ clean = TRUE
    /\ metadata_list = FALSE
    /\ writes = 0
    /\ ended = ""
    /\ last = NoCall

FolderPathCall(metadata) ==
    /\ \E r \in {get_folder_path(metadata, config, cache)} :
           /\ cache' = r.cache
           /\ last' = [op |-> "get_folder_path", metadata |-> metadata,
                       raised |-> r.raised, path |-> r.value]
    /\ UNCHANGED <<src, dst, dirs, disk, elodie_dir, entries, config, opts, pc,
                   file_generator, file_batch, has_errors, exit_status, now, run,
                   io_errors, processed, imported, clean, metadata_list, writes, ended>>

NextFolderPath == \E metadata \in FolderMetadata : FolderPathCall(metadata)

SpecFolderPath == InitFolderPath /\ [][NextFolderPath]_vars

\* an alternative (part, mask) is accepted: a temporal field, a direct field
\* with a non-empty value, or a quoted literal
Accepted(alt, metadata) ==
    \/ alt[1] \in DateParts
    \/ alt[1] \in FieldParts /\ Truthy(Field(metadata, alt[1]))
    \/ IsQuoted(alt[1])
\* index of the first accepted alternative of a segment, 0 when there is none
FirstAccepted(path_part, metadata) ==
    IF \E i \in 1..Len(path_part) : Accepted(path_part[i], metadata)
    THEN CHOOSE i \in 1..Len(path_part) :
            /\ Accepted(path_part[i], metadata)
            /\ \A j \in 1..(i - 1) : ~Accepted(path_part[j], metadata)
    ELSE 0
\* the component an accepted alternative stands for
StatedComponent(alt, metadata, flag_undated) ==
    IF alt[1] \in DateParts
    THEN IF metadata.date_taken # <<>>
         THEN <<strftime(alt[2], metadata.date_taken[1])>>
         ELSE IF flag_undated THEN <<>> ELSE <<undated>>
    ELSE IF alt[1] \in FieldParts THEN <<Field(metadata, alt[1])[1]>>
    ELSE <<Unquote(alt[1])>>
\* the path as stated: every segment contributes the component of its first
\* accepted alternative and nothing else
RECURSIVE StatedPath(_, _, _, _)
StatedPath(path_parts, i, metadata, flag_undated) ==
    IF i > Len(path_parts) THEN <<>>
    ELSE IF FirstAccepted(path_parts[i], metadata) = 0
    THEN StatedPath(path_parts, i + 1, metadata, flag_undated)
    ELSE StatedComponent(path_parts[i][FirstAccepted(path_parts[i], metadata)],
                         metadata, flag_undated)
         \o StatedPath(path_parts, i + 1, metadata,
                       flag_undated \/
                         (path_parts[i][FirstAccepted(path_parts[i], metadata)][1] \in DateParts
                          /\ metadata.date_taken = <<>>))

\* C21 (as stated): the components get_folder_path resolves are, segment by
\* segment, the component of the first accepted alternative; a segment adds
\* at most one component and a segment without an accepted alternative none.
C21_FirstAcceptedAlternativeWins ==
    last.op = "get_folder_path" =>
        /\ Len(last.path) <= Len(cache.def)
        /\ last.path = StatedPath(cache.def, 1, last.metadata, FALSE)

\* C22 (as stated): with the pattern '%album|%city|"Unknown"' and no album,
\* the folder path is the city when the metadata has one and `Unknown` only
\* when it has none.
C22_LocationFallback ==
    (/\ last.op = "get_folder_path"
     /\ config.file_path_pattern = PatternAlbumCityUnknown
     /\ ~Truthy(last.metadata.album))
        => IF Truthy(last.metadata.city)
           THEN last.path = <<last.metadata.city[1]>>
           ELSE last.path = << <<"U", "n", "k", "n", "o", "w", "n">> >>

\* number of components of a path equal to x
CountOf(path, x) == Cardinality({i \in DOMAIN path : path[i] = x})

\* C23: without a date_taken the resolved path has the component `undated`
\* at most once, and '%date/%date/%album' resolves to `undated` followed by
\* the album.
C23_UndatedOnce ==
    (last.op = "get_folder_path" /\ last.metadata.date_taken = <<>>) =>
        /\ CountOf(last.path, undated) <= 1
        /\ (config.file_path_pattern = PatternDateDateAlbum /\ Truthy(last.metadata.album))
              => last.path = <<undated, last.metadata.album[1]>>

\* '%date/%date/%album' was resolved for an undated file with an album
C23_Witness ==
    /\ last.op = "get_folder_path" /\ last.metadata.date_taken = <<>>
    /\ config.file_path_pattern = PatternDateDateAlbum
    /\ Truthy(last.metadata.album)
    /\ last.path = <<undated, last.metadata.album[1]>>

(***************************************************************************)
(* Direct calls of FileSystem.get_file_name: on the metadata of a new      *)
(* file, on the metadata of a file that carries the name derived before,   *)
(* and on the metadata _update prepares when it sets a title               *)
(* (elodie.py:431-453).                                                    *)
(***************************************************************************)
MaxUpdates == 2

FileNameTitles == {<<"T", "r", "i", "p">>, <<"a", " ", "b">>, <<" ", "X">>}
FileNameMetadata ==
    {[date_taken |-> dt, original_name |-> on, title |-> ti, album |-> <<>>,
      camera_make |-> <<>>, camera_model |-> cm, origin |-> og, city |-> <<>>,
      extension |-> <<"j", "p", "g">>, base_name |-> bn] :
        dt \in {<<>>, <<Time1>>},
        on \in {<<>>, << <<"O", "r", "i", "g", ".", "J", "P", "G">> >>},
        ti \in {<<>>, << <<>> >>} \cup {<<t>> : t \in FileNameTitles},
        cm \in {<<>>, << <<"X", "1">> >>},
        og \in {<<>>, << <<"s", "c", "n">> >>},
        bn \in {<<"I", "M", "G", "1">>, <<"m", "y", "-", "T", "r", "i", "p">>}}

\* the base_name the media class reports for a file named file_name
base_name_of_file(file_name) == SplitExt(file_name)[1]

\* elodie.py:440: re.sub(r'\W+', '-', original_title.lower())
sanitized_original_title(original_title) == SubNonWord(Lower(original_title), 1)

\* elodie.py:431-453: the metadata of updated_media when _update sets `title`
\* on a file whose metadata was `metadata`
update_title_metadata(metadata, title, title_update_status) ==
    LET remove_old_title_from_name == title_update_status /\ Truthy(metadata.title)
        without(base, original_title) ==
            IF Len(original_title) > 0
            THEN Replace(base, <<"-">> \o original_title, <<>>)
            ELSE base
    IN  [metadata EXCEPT
            !.title = IF title_update_status THEN <<title>> ELSE @,
            !.base_name = IF remove_old_title_from_name
                          THEN without(@, sanitized_original_title(metadata.title[1]))
                          ELSE @]

InitFileName ==
    /\ config = [base_path |-> "/t", file_path_pattern |-> PatternDateAlbum]
    /\ entries = EmptyMap
    /\ src = InitialSource
    /\ dst = <<>>
    /\ dirs = {}
    /\ disk = <<>>
    /\ elodie_dir = FALSE
    /\ cache = NoCache
    /\ opts = NoOpts
    /\ pc = "idle"
    /\ file_generator = <<>>
    /\ file_batch = <<>>
    /\ has_errors = FALSE
    /\ exit_status = -1
    /\ now = 0
    /\ run = 0
    /\ io_errors = 0
    /\ processed = <<>>
    /\ imported = {}
    /\ clean = TRUE
    /\ metadata_list = FALSE
    /\ writes = 0
    /\ ended = ""
    /\ last = NoCall

FileNameRecord(step, metadata, prev, title, status, count) ==
    [op |-> "get_file_name", step |-> step, metadata |-> metadata,
     name |-> get_file_name(metadata, config), prev |-> prev,
     title |-> title, status |-> status, count |-> count]

\* get_file_name on the metadata of a file that was never named by it
FileNameCall(metadata) ==
    /\ last.op = "none"
    /\ last' = FileNameRecord("derive", metadata, <<>>, <<>>, TRUE, 0)
    /\ UNCHANGED <<src, dst, dirs, disk, elodie_dir, entries, cache, config, opts, pc,
                   file_generator, file_batch, has_errors, exit_status, now, run,
                   io_errors, processed, imported, clean, metadata_list, writes, ended>>

\* get_file_name on the file that carries the name derived by the last call
RederiveCall ==
    /\ last.op = "get_file_name" /\ last.step = "derive"
    /\ last' = FileNameRecord("rederive",
                   [last.metadata EXCEPT !.base_name = base_name_of_file(last.name)],
                   last.name, <<>>, TRUE, 0)
    /\ UNCHANGED <<src, dst, dirs, disk, elodie_dir, entries, cache, config, opts, pc,
                   file_generator, file_batch, has_errors, exit_status, now, run,
                   io_errors, processed, imported, clean, metadata_list, writes, ended>>

\* the name of the file after _update set `title` on the file that carries
\* the name of the last call
TitleUpdateCall(title, title_update_status) ==
    /\ last.op = "get_file_name"
    /\ \/ last.step = "derive"
       \/ last.step = "update" /\ last.title = title /\ last.count < MaxUpdates
    /\ last' = FileNameRecord("update",
                   update_title_metadata(
                       [last.metadata EXCEPT !.base_name = base_name_of_file(last.name)],
                       title, title_update_status),
                   last.name, title,
                   title_update_status /\ last.status,
                   IF last.step = "update" THEN last.count + 1 ELSE 1)
    /\ UNCHANGED <<src, dst, dirs, disk, elodie_dir, entries, cache, config, opts, pc,
                   file_generator, file_batch, has_errors, exit_status, now, run,
                   io_errors, processed, imported, clean, metadata_list, writes, ended>>

NextFileName ==
    \/ \E metadata \in FileNameMetadata : FileNameCall(metadata)
    \/ RederiveCall
    \/ \E title \in FileNameTitles, status \in BOOLEAN : TitleUpdateCall(title, status)

SpecFileName == InitFileName /\ [][NextFileName]_vars

\* the part a present value contributes, with the hyphen that follows it
Part(opt) == IF opt = <<>> THEN <<>> ELSE opt[1] \o <<"-">>
\* YYYY-MM-DD_HH-MM-SS
StatedDate(t) == t.Y \o <<"-">> \o t.m \o <<"-">> \o t.d \o <<"_">>
                     \o t.H \o <<"-">> \o t.M \o <<"-">> \o t.S
\* the base name with the sanitized title appended
StatedBase(metadata) ==
    LET stripped == StripDatePrefix(metadata.base_name)
        base == IF Truthy(metadata.original_name)
                THEN SplitExt(metadata.original_name[1])[1]
                ELSE IF stripped = <<>> THEN metadata.base_name ELSE stripped
        sanitized == IF Truthy(metadata.title)
                     THEN SubNonWord(Strip(metadata.title[1]), 1) ELSE <<>>
    IN  IF Truthy(metadata.title)
        THEN Replace(base, <<"-">> \o sanitized, <<>>) \o <<"-">> \o sanitized
        ELSE base
StatedFileName(metadata) ==
    Lower(Part(IF metadata.date_taken = <<>> THEN <<>>
               ELSE <<StatedDate(metadata.date_taken[1])>>)
          \o Part(IF metadata.origin # <<>> THEN metadata.origin
                  ELSE metadata.camera_model)
          \o StatedBase(metadata) \o <<".">> \o metadata.extension)

\* C24: the file name is the formatted date_taken if present, then origin if
\* present, else camera_model if present, then the base name with the
\* sanitized title appended, joined by hyphens, followed by the extension,
\* all in lower case; an absent part leaves no empty component.
C24_FileNameParts ==
    last.op = "get_file_name" => last.name = StatedFileName(last.metadata)

\* a name was derived from a date, a camera model without an origin, and a title
C24_Witness ==
    /\ last.op = "get_file_name" /\ last.step = "derive"
    /\ last.metadata.date_taken # <<>> /\ last.metadata.origin = <<>>
    /\ last.metadata.camera_model # <<>> /\ Truthy(last.metadata.title)
    /\ last.metadata.original_name = <<>>
    /\ last.name = StatedFileName(last.metadata)

\* C25: deriving the name of a file without original_name that already
\* carries its derived name gives the same name again.
C25_NoPrefixAccumulation ==
    (/\ last.op = "get_file_name" /\ last.step = "rederive"
     /\ last.metadata.original_name = <<>>)
        => last.name = last.prev

\* C26: the same title update applied a second time leaves the file name of
\* the first application.
C26_TitleUpdateIdempotent ==
    (/\ last.op = "get_file_name" /\ last.step = "update"
     /\ last.count = 2 /\ last.status)
        => last.name = last.prev

(***************************************************************************)
(* elodie.py: _update, and the FileSystem methods it calls.  A path of the *)
(* library is the sequence of its components; the root is <<>>.            *)
(***************************************************************************)
\* os.path.dirname
dirname(p) == IF Len(p) = 0 THEN p ELSE SubSeq(p, 1, Len(p) - 1)
\* d holds no file and no directory
IsEmptyDir(fileset, dirset, d) ==
    /\ \A f \in fileset : dirname(f) # d
    /\ \A e \in dirset : e = d \/ dirname(e) # d

\* a removal that does not look into the directory
delete_directory(fileset, dirset, d, permitted) ==
    IF d \in dirset /\ Len(d) > 0 /\ permitted THEN dirset \ {d} ELSE dirset
\* filesystem.py:78-93: os.rmdir raises OSError for a directory that is
\* missing, not empty or not removable, and the OSError is swallowed
delete_directory_if_empty(fileset, dirset, d, permitted) ==
    IF d \in dirset /\ Len(d) > 0 /\ permitted /\ IsEmptyDir(fileset, dirset, d)
    THEN dirset \ {d} ELSE dirset

\* elodie.py:462-464: the directory of current_file, then its parent
update_cleanup(fileset, dirset, current_file, permitted) ==
    delete_directory_if_empty(fileset,
        delete_directory_if_empty(fileset, dirset, dirname(current_file), permitted),
        dirname(dirname(current_file)), permitted)

\* filesystem.py:399-416: process_file from the comparison of the paths on;
\* dest_path <<>> is the None of the early return
move_file(files, dirset, _file, dest_path) ==
    IF _file = dest_path
    THEN [raised |-> FALSE, dest_path |-> <<>>, files |-> files, dirs |-> dirset]
    ELSE [raised |-> FALSE, dest_path |-> <<dest_path>>,
          files |-> [x \in (DOMAIN files \ {_file}) \cup {dest_path} |->
                        IF x = dest_path THEN files[_file] ELSE files[x]],
          dirs |-> MakeDirs(dirset, dirname(dest_path))]

\* required parameters of the methods _update and process_file call, and the
\* arguments the calls pass; a call that leaves a required parameter
\* without an argument raises TypeError before the body runs
get_folder_path_definition_params == {"pattern"}
update_definition_call_arguments == {}
DefinitionCallBinds ==
    get_folder_path_definition_params \subseteq update_definition_call_arguments
process_file_params == {"_file", "destination", "media", "manifest"}
update_process_file_call_arguments == {"_file", "destination", "media"}
ProcessFileCallBinds == process_file_params \subseteq update_process_file_call_arguments
get_folder_path_params == {"metadata", "target_config"}
process_file_folder_call_arguments == {"metadata"}
FolderPathCallBinds == get_folder_path_params \subseteq process_file_folder_call_arguments

\* filesystem.py:348-416, for the destination the resolver computes
process_file(files, dirset, _file, dest_path) ==
    IF ~FolderPathCallBinds
    THEN [raised |-> TRUE, dest_path |-> <<>>, files |-> files, dirs |-> dirset]
    ELSE move_file(files, dirset, _file, dest_path)

\* the options of the update command
UpdateOptsSet == [album : {<<>>, << <<"T", "r", "i", "p">> >>},
                  title : {<<>>, << <<"T", "r", "i", "p">> >>}]
\* Media.get_class_by_file: the library files with a media handler
UpdateUnsupported == {<<"t", "notes.xyz">>}

\* the flag left as it was
path_not_found_ignored(errs) == errs
\* elodie.py:387
path_not_found(errs) == TRUE

\* elodie.py:385-470: the body of the loop for current_file
update_file(current_file, files, dirset, errs, options, dest_path, permitted) ==
    LET continue(e, failed) ==
            [raised |-> FALSE, has_errors |-> e, failed |-> failed,
             files |-> files, dirs |-> dirset]
        raise == [raised |-> TRUE, has_errors |-> errs, failed |-> FALSE,
                  files |-> files, dirs |-> dirset]
        relocated(r) ==
            IF r.raised THEN raise
            ELSE [raised |-> FALSE, failed |-> r.dest_path = <<>>,
                  has_errors |-> (errs \/ r.dest_path = <<>>),
                  files |-> r.files,
                  dirs |-> update_cleanup(DOMAIN r.files, r.dirs, current_file, permitted)]
        updated == options.album # <<>> \/ options.title # <<>>
    IN  IF current_file \notin DOMAIN files
        THEN continue(path_not_found(errs), TRUE)
        ELSE IF ~DefinitionCallBinds THEN raise
        ELSE IF current_file \in UpdateUnsupported THEN continue(errs, FALSE)
        ELSE IF updated
             THEN IF ~ProcessFileCallBinds THEN raise
                  ELSE relocated(process_file(files, dirset, current_file, dest_path))
             ELSE continue(FALSE, FALSE)

(***************************************************************************)
(* Runs of the update command on a library.                                *)
(***************************************************************************)
LibraryFiles == {<<"t", "2020", "Trip", "a.jpg">>, <<"t", "2020", "c.jpg">>,
                 <<"t", "2019", "d.jpg">>, <<"t", "notes.xyz">>}
\* the paths an update can be given: files of the library, a directory of
\* the library, and paths that do not exist
UpdateArguments == {<<"t", "2020", "Trip", "a.jpg">>, <<"t", "2020", "c.jpg">>,
                    <<"t", "2019">>, <<"t", "notes.xyz">>,
                    <<"t", "2020", "gone.jpg">>, <<"t", "lost.jpg">>}
\* p is d or lies below d
IsBelow(p, d) == Len(d) <= Len(p) /\ SubSeq(p, 1, Len(d)) = d
\* elodie.py:377-383: a directory stands for the files below it
FilesOf(paths, fileset, dirset) ==
    UNION {IF path \in dirset THEN {f \in fileset : IsBelow(f, path)} ELSE {path} :
               path \in paths}
\* the directories the resolver can compute for a file of the library
UpdateDirectories == {<<"t", "2020", "Trip">>, <<"t", "2021", "Trip">>}
\* os.path.join(dest_directory, file_name), the file keeping its name
JoinName(dest_directory, current_file) ==
    Append(dest_directory, current_file[Len(current_file)])

InitUpdate ==
    /\ dst = [f \in LibraryFiles |-> "c1"]
    /\ dirs = UNION {MakeDirs({}, dirname(f)) : f \in LibraryFiles}
    /\ config = [base_path |-> "/t", file_path_pattern |-> PatternDateAlbum]
    /\ entries = EmptyMap
    /\ src = InitialSource
    /\ disk = <<>>
    /\ elodie_dir = FALSE
    /\ cache = NoCache
    /\ opts = NoOpts
    /\ pc = "idle"
    /\ file_generator = <<>>
    /\ file_batch = {}
    /\ has_errors = FALSE
    /\ exit_status = -1
    /\ now = 0
    /\ run = 0
    /\ io_errors = 0
    /\ processed = <<>>
    /\ imported = {}
    /\ clean = TRUE
    /\ metadata_list = FALSE
    /\ writes = 0
    /\ ended = ""
    /\ last = NoCall

\* elodie.py:373-383
StartUpdate(paths, options) ==
    /\ pc = "idle"
    /\ pc' = "update"
    /\ opts' = options
    /\ has_errors' = FALSE
    /\ file_batch' = FilesOf(paths, DOMAIN dst, dirs)
    /\ last' = [op |-> "update", failed |-> {}]
    /\ UNCHANGED <<src, dst, dirs, disk, elodie_dir, entries, cache, config,
                   file_generator, exit_status, now, run, io_errors, processed,
                   imported, clean, metadata_list, writes, ended>>

\* elodie.py:385-470: one iteration of `for current_file in files`; an
\* exception leaves _update and ends the process with status 1
UpdateStep(current_file, dest_directory, permitted) ==
    /\ pc = "update"
    /\ current_file \in file_batch
    /\ \E r \in {update_file(current_file, dst, dirs, has_errors, opts,
                             JoinName(dest_directory, current_file), permitted)} :
           /\ dst' = r.files
           /\ dirs' = r.dirs
           /\ has_errors' = r.has_errors
           /\ last' = [last EXCEPT !.failed = IF r.failed THEN @ \cup {current_file} ELSE @]
           /\ IF r.raised
              THEN /\ pc' = "exited"
                   /\ exit_status' = 1
                   /\ ended' = "exception"
                   /\ UNCHANGED file_batch
              ELSE /\ file_batch' = file_batch \ {current_file}
                   /\ UNCHANGED <<pc, exit_status, ended>>
    /\ processed' = Append(processed, current_file)
    /\ UNCHANGED <<src, disk, elodie_dir, entries, cache, config, opts,
                   file_generator, now, run, io_errors, imported, clean,
                   metadata_list, writes>>

\* elodie.py:472-475
FinishUpdate ==
    /\ pc = "update"
    /\ file_batch = {}
    /\ pc' = "exited"
    /\ exit_status' = IF has_errors THEN 1 ELSE 0
    /\ ended' = "done"
    /\ UNCHANGED <<src, dst, dirs, disk, elodie_dir, entries, cache, config, opts,
                   file_generator, file_batch, has_errors, now, run, io_errors,
                   processed, imported, clean, metadata_list, writes, last>>

NextUpdate ==
    \/ \E paths \in (SUBSET UpdateArguments) \ {{}}, options \in UpdateOptsSet :
           StartUpdate(paths, options)
    \/ \E current_file \in LibraryFiles \cup UpdateArguments,
          dest_directory \in UpdateDirectories, permitted \in BOOLEAN :
           UpdateStep(current_file, dest_directory, permitted)
    \/ FinishUpdate

SpecUpdate == InitUpdate /\ [][NextUpdate]_vars

\* C27: an update run in which a file failed ends with a nonzero exit
\* status, whatever the order of the files and whatever happened to the
\* files processed after it.
C27_UpdateExitStatus ==
    (pc = "exited" /\ last.op = "update" /\ last.failed # {}) => exit_status # 0

\* a run with a missing path went through all its files
C27_Witness ==
    /\ pc = "exited" /\ last.op = "update" /\ ended = "done"
    /\ last.failed # {} /\ Len(processed) >= 2
    /\ exit_status = 1

(***************************************************************************)
(* The relocation of a file (filesystem.py:399-416) followed by the        *)
(* cleanup of elodie.py:462-464, applied to the files of a library.       *)
(***************************************************************************)
RelocateFiles == {<<"t", "2020", "Trip", "a.jpg">>, <<"t", "2020", "Trip", "b.jpg">>,
                  <<"t", "2020", "c.jpg">>}
\* a directory without files
RelocateExtraDirs == {<<"t", "2020", "Trip", "raw">>}
RelocateDirectories == {<<"t", "2020", "Trip">>, <<"t", "2021", "Trip">>, <<"u">>}
\* the paths a file of the library can be at
RelocatePaths ==
    RelocateFiles \cup {JoinName(d, f) : d \in RelocateDirectories, f \in RelocateFiles}

InitRelocate ==
    /\ \E S \in (SUBSET RelocateFiles) \ {{}}, E \in SUBSET RelocateExtraDirs :
           /\ dst = [f \in S |-> "c1"]
           /\ dirs = UNION ({MakeDirs({}, dirname(f)) : f \in S}
                            \cup {MakeDirs({}, e) : e \in E})
    /\ config = [base_path |-> "/t", file_path_pattern |-> PatternDateAlbum]
    /\ entries = EmptyMap
    /\ src = InitialSource
    /\ disk = <<>>
    /\ elodie_dir = FALSE
    /\ cache = NoCache
    /\ opts = NoOpts
    /\ pc = "idle"
    /\ file_generator = <<>>
    /\ file_batch = {}
    /\ has_errors = FALSE
    /\ exit_status = -1
    /\ now = 0
    /\ run = 0
    /\ io_errors = 0
    /\ processed = <<>>
    /\ imported = {}
    /\ clean = TRUE
    /\ metadata_list = FALSE
    /\ writes = 0
    /\ ended = ""
    /\ last = NoCall

RelocateCall(current_file, dest_directory, permitted) ==
    /\ current_file \in DOMAIN dst
    /\ \E r \in {move_file(dst, dirs, current_file,
                           JoinName(dest_directory, current_file))} :
           /\ dst' = r.files
           /\ dirs' = update_cleanup(DOMAIN r.files, r.dirs, current_file, permitted)
           /\ last' = [op |-> "relocate", current_file |-> current_file,
                       dest_path |-> r.dest_path, dirs_before |-> dirs]
    /\ UNCHANGED <<src, disk, elodie_dir, entries, cache, config, opts, pc,
                   file_generator, file_batch, has_errors, exit_status, now, run,
                   io_errors, processed, imported, clean, metadata_list, writes, ended>>

NextRelocate ==
    \E current_file \in RelocatePaths, dest_directory \in RelocateDirectories,
       permitted \in BOOLEAN :
        RelocateCall(current_file, dest_directory, permitted)

SpecRelocate == InitRelocate /\ [][NextRelocate]_vars

\* the directories the last relocation removed
Removed == last.dirs_before \ dirs
\* nothing is left at or below d
NothingBelow(d) ==
    /\ \A f \in DOMAIN dst : ~IsBelow(f, d)
    /\ \A e \in dirs : ~IsBelow(e, d)

\* C28: the cleanup after a relocation removes only empty directories, and
\* only the former directory of the file and the parent of that directory.
C28_CleanupIsBounded ==
    last.op = "relocate" =>
        \A d \in Removed :
            /\ d \in {dirname(last.current_file), dirname(dirname(last.current_file))}
            /\ NothingBelow(d)

\* the file left its directory, the directory and its parent were removed,
\* and the empty grandparent stays
C28_Witness ==
    /\ last.op = "relocate" /\ last.dest_path # <<>>
    /\ Removed = {dirname(last.current_file), dirname(dirname(last.current_file))}
    /\ dirname(dirname(dirname(last.current_file))) \in dirs
    /\ IsEmptyDir(DOMAIN dst, dirs, dirname(dirname(dirname(last.current_file))))

(***************************************************************************)
(* elodie.py: _generate_db, with manifest.py: backup_hash_db,              *)
(* reset_hash_db, add_hash, update_hash_db.  Of the files on disk <<>> is  *)
(* constants.hash_db and <<n>> its backup made at second n.                *)
(***************************************************************************)
HashDbPath == <<>>
\* the mapping an earlier run left in the hash DB file
OldHashDb == [k \in {"sha:c9"} |-> "/s/old.jpg"]
\* what a copy or a dump that broke off leaves of a hash DB file
TruncatedHashDb == [k \in {"partial"} |-> "partial"]
\* os.walk order of the source
GenerateDbScan == <<"/s/a/IMG1.jpg", "/s/c/copy.jpg", "/s/gone.jpg", "/s/d/scan.jpg">>

\* no backup is made
backup_hash_db_skipped(files, stamp, io) == [raised |-> FALSE, files |-> files]
\* manifest.py:92-98: copyfile to '<hash_db>-<timestamp>' when the file exists
backup_hash_db(files, stamp, io) ==
    IF ~IsFile(files, HashDbPath) THEN [raised |-> FALSE, files |-> files]
    ELSE CASE io = "ok" ->
                [raised |-> FALSE, files |-> WriteFile(files, <<stamp>>, files[HashDbPath])]
           [] io = "raise_clean" -> [raised |-> TRUE, files |-> files]
           [] io = "raise_partial" ->
                [raised |-> TRUE, files |-> WriteFile(files, <<stamp>>, TruncatedHashDb)]

\* manifest.py:81-90: self.hash_db[key] = value
add_hash(db, key, value) == [k \in DOMAIN db \cup {key} |-> IF k = key THEN value ELSE db[k]]

\* manifest.py:149-152: open(constants.hash_db, 'w') and json.dump
update_hash_db(files, db, io) ==
    CASE io = "ok" -> [raised |-> FALSE, files |-> WriteFile(files, HashDbPath, db)]
      [] io = "raise_clean" -> [raised |-> TRUE, files |-> files]
      [] io = "raise_partial" ->
           [raised |-> TRUE, files |-> WriteFile(files, HashDbPath, TruncatedHashDb)]

InitGenerateDb ==
    /\ disk \in {<<>>, [k \in {HashDbPath} |-> OldHashDb]}
    /\ src = [p \in DOMAIN InitialSource \ {"/s/c/copy.jpg"} |-> InitialSource[p]]
    /\ dst = <<>>
    /\ dirs = {}
    /\ config = [base_path |-> "/t", file_path_pattern |-> PatternDateAlbum]
    /\ entries = <<>>
    /\ elodie_dir = FALSE
    /\ cache = NoCache
    /\ opts = NoOpts
    /\ pc = "idle"
    /\ file_generator = <<>>
    /\ file_batch = <<>>
    /\ has_errors = FALSE
    /\ exit_status = -1
    /\ now = 0
    /\ run = 0
    /\ io_errors = 0
    /\ processed = <<>>
    /\ imported = {}
    /\ clean = TRUE
    /\ metadata_list = FALSE
    /\ writes = 0
    /\ ended = ""
    /\ last = NoCall

\* elodie.py:278-286; the source tree may have changed since the last run
StartGenerateDb(is_dir, copy_present) ==
    /\ pc \in {"idle", "exited"}
    /\ run < MaxRuns
    /\ run' = run + 1
    /\ src' = IF copy_present
              THEN [p \in DOMAIN InitialSource |-> InitialSource[p]]
              ELSE [p \in DOMAIN InitialSource \ {"/s/c/copy.jpg"} |-> InitialSource[p]]
    /\ last' = [op |-> "generate_db",
                start |-> IF IsFile(disk, HashDbPath) THEN <<disk[HashDbPath]>> ELSE <<>>]
    /\ IF is_dir
       THEN /\ pc' = "backup"
            /\ exit_status' = -1
            /\ ended' = ""
       ELSE /\ pc' = "exited"
            /\ exit_status' = 1
            /\ ended' = "not_a_directory"
    /\ UNCHANGED <<dst, dirs, disk, elodie_dir, entries, cache, config, opts,
                   file_generator, file_batch, has_errors, now, io_errors,
                   processed, imported, clean, metadata_list, writes>>

\* elodie.py:287-288: db.backup_hash_db(), db.reset_hash_db()
BackupAndReset(stamp, io) ==
    /\ pc = "backup"
    /\ stamp >= now
    /\ io = "ok" \/ io_errors < MaxIoErrors
    /\ now' = stamp
    /\ io_errors' = IF io = "ok" THEN io_errors ELSE io_errors + 1
    /\ \E r \in {backup_hash_db(disk, stamp, io)} :
           /\ disk' = r.files
           /\ IF r.raised
              THEN /\ pc' = "exited"
                   /\ exit_status' = 1
                   /\ ended' = "exception"
                   /\ UNCHANGED <<entries, file_generator>>
              ELSE /\ pc' = "scan"
                   /\ entries' = <<>>
                   /\ file_generator' = GenerateDbScan
                   /\ UNCHANGED <<exit_status, ended>>
    /\ UNCHANGED <<src, dst, dirs, elodie_dir, cache, config, opts, file_batch,
                   has_errors, run, processed, imported, clean, metadata_list,
                   writes, last>>

\* elodie.py:290-293: one file of the scan; a file that cannot be read
\* raises out of db.checksum
AddHash(rd) ==
    /\ pc = "scan"
    /\ file_generator # <<>>
    /\ rd \/ io_errors < MaxIoErrors
    /\ io_errors' = IF rd THEN io_errors ELSE io_errors + 1
    /\ IF ~IsFile(src, Head(file_generator))
       THEN /\ file_generator' = Tail(file_generator)
            /\ UNCHANGED <<entries, pc, exit_status, ended>>
       ELSE IF rd
            THEN /\ entries' = add_hash(entries, checksum(src[Head(file_generator)]),
                                        Head(file_generator))
                 /\ file_generator' = Tail(file_generator)
                 /\ UNCHANGED <<pc, exit_status, ended>>
            ELSE /\ pc' = "exited"
                 /\ exit_status' = 1
                 /\ ended' = "exception"
                 /\ UNCHANGED <<entries, file_generator>>
    /\ UNCHANGED <<src, dst, dirs, disk, elodie_dir, cache, config, opts, file_batch,
                   has_errors, now, run, processed, imported, clean, metadata_list,
                   writes, last>>

\* elodie.py:295-297
UpdateHashDb(stamp, io) ==
    /\ pc = "scan"
    /\ file_generator = <<>>
    /\ stamp >= now
    /\ io = "ok" \/ io_errors < MaxIoErrors
    /\ now' = stamp
    /\ io_errors' = IF io = "ok" THEN io_errors ELSE io_errors + 1
    /\ \E r \in {update_hash_db(disk, entries, io)} :
           /\ disk' = r.files
           /\ exit_status' = IF r.raised THEN 1 ELSE 0
           /\ ended' = IF r.raised THEN "exception" ELSE "done"
    /\ pc' = "exited"
    /\ UNCHANGED <<src, dst, dirs, elodie_dir, entries, cache, config, opts,
                   file_generator, file_batch, has_errors, run, processed, imported,
                   clean, metadata_list, writes, last>>

NextGenerateDb ==
    \/ \E is_dir \in BOOLEAN, copy_present \in BOOLEAN : StartGenerateDb(is_dir, copy_present)
    \/ \E stamp \in 0..MaxStamp, io \in CopyOutcomes : BackupAndReset(stamp, io)
    \/ \E rd \in BOOLEAN : AddHash(rd)
    \/ \E stamp \in 0..MaxStamp, io \in CopyOutcomes : UpdateHashDb(stamp, io)

SpecGenerateDb == InitGenerateDb /\ [][NextGenerateDb]_vars

\* a backup file holds the mapping the run found at its start
BackedUp == \E k \in DOMAIN disk : k # HashDbPath /\ disk[k] = last.start[1]

\* C29: when a hash DB file exists at the start of generate-db, its mapping
\* is in a backup file before the in-memory DB is reset and before the DB
\* file is rewritten, so it stays recoverable from the files on disk.
C29_BackupBeforeReset ==
    (last.op = "generate_db" /\ last.start # <<>>) =>
        /\ \E k \in DOMAIN disk : disk[k] = last.start[1]
        /\ (pc = "scan" \/ disk[HashDbPath] # last.start[1]) => BackedUp

\* a run rewrote an existing hash DB file and the old mapping is in a backup
C29_Witness ==
    /\ last.op = "generate_db" /\ last.start # <<>>
    /\ pc = "exited" /\ ended = "done"
    /\ disk[HashDbPath] # last.start[1]
    /\ BackedUp

(***************************************************************************)
(* elodie.py: _merge.  disk maps the path of a manifest to the files that  *)
(* carry its name: <<>> the file itself, <<n>> the sibling written at      *)
(* second n.                                                               *)
(***************************************************************************)
MergeManifestPaths == {"m1.json", "m2.json", "m3.json"}
MergeOutputPaths == {"out.json", "m2.json"}
MergeTarget == Map([k \in {"path", "name"} |-> Str(<<"x">>)])
MergeEntry(source_paths) ==
    Map([k \in {"sources", "target"} |->
            IF k = "sources" THEN Map([p \in source_paths |-> EmptyMap])
            ELSE MergeTarget])
\* the manifests on disk before the command; m3.json does not exist
MergeManifests ==
    [p \in MergeManifestPaths \cup MergeOutputPaths |->
        CASE p = "m1.json" ->
               [k \in {OwnPath} |-> Map([c \in {"sha:c1"} |-> MergeEntry({"/s/a/IMG1.jpg"})])]
          [] p = "m2.json" ->
               [k \in {OwnPath} |->
                   Map([c \in {"sha:c1", "sha:c2"} |->
                           IF c = "sha:c1" THEN MergeEntry({"/s/c/copy.jpg"})
                           ELSE MergeEntry({"/s/b/IMG1.jpg"})])]
          [] OTHER -> <<>>]
\* the sequences of distinct manifest paths the command can be given
MergeArguments ==
    {<<a>> : a \in MergeManifestPaths}
    \cup {q \in [1..2 -> MergeManifestPaths] : q[1] # q[2]}
    \cup {q \in [1..3 -> MergeManifestPaths] : Cardinality({q[i] : i \in 1..3}) = 3}

InitMergeCommand ==
    /\ disk = MergeManifests
    /\ src = InitialSource
    /\ dst = <<>>
    /\ dirs = {}
    /\ config = [base_path |-> "/t", file_path_pattern |-> PatternDateAlbum]
    /\ entries = EmptyMap
    /\ elodie_dir = FALSE
    /\ cache = NoCache
    /\ opts = NoOpts
    /\ pc = "idle"
    /\ file_generator = <<>>
    /\ file_batch = <<>>
    /\ has_errors = FALSE
    /\ exit_status = -1
    /\ now = 0
    /\ run = 0
    /\ io_errors = 0
    /\ processed = <<>>
    /\ imported = {}
    /\ clean = TRUE
    /\ metadata_list = FALSE
    /\ writes = 0
    /\ ended = ""
    /\ last = NoCall

\* elodie.py:243-246
StartMerge(manifest_paths, output_path) ==
    /\ pc = "idle"
    /\ pc' = "load"
    /\ file_generator' = manifest_paths
    /\ entries' = EmptyMap
    /\ last' = [op |-> "merge_command", output_path |-> output_path,
                file_path |-> "manifest.json",
                inputs |-> [p \in {manifest_paths[i] : i \in DOMAIN manifest_paths} |->
                               IF IsFile(disk[p], OwnPath) THEN disk[p][OwnPath]
                               ELSE EmptyMap]]
    /\ UNCHANGED <<src, dst, dirs, disk, elodie_dir, cache, config, opts, file_batch,
                   has_errors, exit_status, now, run, io_errors, processed, imported,
                   clean, metadata_list, writes, ended>>

\* elodie.py:247-248 with manifest.py:44-54: load_from_file sets file_path,
\* creates a missing file and assigns what it read to self.entries
LoadManifest ==
    /\ pc = "load"
    /\ file_generator # <<>>
    /\ \E files \in {load_from_file(disk[Head(file_generator)])} :
           /\ disk' = [disk EXCEPT ![Head(file_generator)] = files]
           /\ entries' = files[OwnPath]
    /\ last' = [last EXCEPT !.file_path = Head(file_generator)]
    /\ file_generator' = Tail(file_generator)
    /\ UNCHANGED <<src, dst, dirs, elodie_dir, cache, config, opts, pc, file_batch,
                   has_errors, exit_status, now, run, io_errors, processed, imported,
                   clean, metadata_list, writes, ended>>

\* elodie.py:250-254: manifest.write(output_path, overwrite=False); the first
\* positional parameter of write is `indent` (manifest.py:60), and the file
\* written is the timestamped sibling of self.file_path
WriteMerged(stamp) ==
    /\ pc = "load"
    /\ file_generator = <<>>
    /\ stamp >= now
    /\ now' = stamp
    /\ disk' = [disk EXCEPT ![last.file_path] = write(@, entries, FALSE, stamp)]
    /\ writes' = writes + 1
    /\ pc' = "exited"
    /\ exit_status' = 0
    /\ ended' = "done"
    /\ UNCHANGED <<src, dst, dirs, elodie_dir, entries, cache, config, opts,
                   file_generator, file_batch, has_errors, run, io_errors, processed,
                   imported, clean, metadata_list, last>>

NextMergeCommand ==
    \/ \E manifest_paths \in MergeArguments, output_path \in MergeOutputPaths :
           StartMerge(manifest_paths, output_path)
    \/ LoadManifest
    \/ \E stamp \in 0..MaxStamp : WriteMerged(stamp)

SpecMergeCommand == InitMergeCommand /\ [][NextMergeCommand]_vars

\* the entries e hold every checksum of every input with its sources
HoldsAllInputs(e) ==
    \A p \in DOMAIN last.inputs : \A sum \in Keys(last.inputs[p]) :
        /\ sum \in Keys(e)
        /\ SourcesIn(last.inputs[p], sum) \subseteq SourcesIn(e, sum)

\* C30: after the merge command the file at the output path holds the merged
\* manifest: every checksum of every input manifest, with the sources of
\* same-checksum entries combined.
C30_MergeSavesAllInputs ==
    (pc = "exited" /\ last.op = "merge_command") =>
        /\ IsFile(disk[last.output_path], OwnPath)
        /\ HoldsAllInputs(disk[last.output_path][OwnPath])

(***************************************************************************)
(* Import runs over source trees that hold only importable files: the      *)
(* configured source file_path names a sub-tree of the source.             *)
(***************************************************************************)
\* FILESYSTEM.get_all_files(source_file_path, None) for the sub-trees /s/a,
\* /s/c and a tree of /s/a, the sidecar and /s/c
SourceTrees == {<<"/s/a/IMG1.jpg">>, <<"/s/c/copy.jpg">>,
                <<"/s/a/IMG1.jpg", "/s/elodie.json", "/s/c/copy.jpg">>}

\* lines 115-159 with the scan of the configured sub-tree
StartImport(o, tree) ==
    /\ pc \in {"idle", "exited"}
    /\ run < MaxRuns
    /\ run' = run + 1
    /\ opts' = o
    /\ disk' = load_from_file(disk)
    /\ entries' = disk'[OwnPath]
    /\ elodie_dir' = TRUE
    /\ cache' = NoCache
    /\ has_errors' = FALSE
    /\ exit_status' = -1
    /\ file_generator' = tree
    /\ file_batch' = <<>>
    /\ processed' = <<>>
    /\ imported' = {}
    /\ clean' = TRUE
    /\ metadata_list' = FALSE
    /\ writes' = 0
    /\ ended' = ""
    /\ last' = NoCall
    /\ pc' = "batch"
    /\ UNCHANGED <<src, dst, dirs, config, now, io_errors>>

NextTrees ==
    \/ \E o \in OptsSet, tree \in SourceTrees : StartImport(o, tree)
    \/ \E extracted \in BOOLEAN : NextBatch(extracted)
    \/ SkipSidecar
    \/ \E rd \in BOOLEAN, io \in ReachableCopyOutcomes : ImportStep(rd, io)
    \/ \E written \in BOOLEAN, stamp \in 0..MaxStamp : WriteManifest(written, stamp)
    \/ Finish

SpecTrees == InitCommon /\ [][NextTrees]_vars

\* the manifest entry's target names a file of the library with that checksum
TargetPresent(sum) ==
    \E d \in {TargetDest(entries.m[sum].m["target"])} :
        IsFile(dst, d) /\ checksum(dst[d]) = sum

\* C31: after a non-dry-run import run in which no file failed, every
\* manifest entry's target names a file that exists under the target base
\* path at target.path/target.name and whose checksum is the entry's key
C31_TargetsExist ==
    (pc = "exited" /\ ended = "done" /\ ~has_errors /\ ~opts.dryrun) =>
        \A sum \in Keys(entries) : TargetPresent(sum)

(***************************************************************************)
(* The batch loop of _import under the scheduling of a running process:    *)
(* a step of the loop that can be taken is taken eventually.  SIGINT and   *)
(* the start of a further run are up to the environment.                   *)
(***************************************************************************)
\* lines 162-184 as the position in _import sees them: `while True` takes
\* the next batch (or leaves the loop when there is none), `for current_file
\* in file_batch` leaves the current file behind
LoopStep ==
    \/ /\ pc = "batch"
       /\ file_batch' = Take(file_generator, exiftool_batch_size)
       /\ pc' \in {"files", "write"}
    \/ /\ pc = "files"
       /\ file_batch' = Tail(file_batch)
       /\ pc' \in {"files", "batch"}

SpecLoop == Init /\ [][Next]_vars /\ WF_<<pc, file_batch>>(LoopStep)

\* the first k files of the scan and the files after them
ScanPrefix(k) == SubSeq(ScanOrder, 1, k)
ScanSuffix(k) == SubSeq(ScanOrder, k + 1, Len(ScanOrder))
InLoop == pc \in {"batch", "files"}

\* C32: the batch driver hands every scanned file to exactly one batch and
\* visits it exactly once, in scan order (the files visited so far are a
\* prefix of the scan, the current batch and the files not yet yielded the
\* rest); a batch is the next exiftool_batch_size files of the scan, or all
\* that is left; a batch is taken, and its metadata extracted, only when
\* every file of the batch before has been visited; and the loop ends once
\* the scan is exhausted.
C32_BatchDriver ==
    /\ [](InLoop =>
             \E k \in 0..Len(ScanOrder) :
                 /\ file_batch \o file_generator = ScanSuffix(k)
                 /\ processed = NonSidecar(ScanPrefix(k)))
    /\ [](Len(file_batch) <= exiftool_batch_size)
    /\ [][(run' = run /\ file_generator' # file_generator) =>
             /\ pc = "batch" /\ file_batch = <<>>
             /\ file_batch' \o file_generator' = file_generator
             /\ (Len(file_batch') = exiftool_batch_size \/ file_generator' = <<>>)]_vars
    /\ [][(run' = run /\ file_batch' # file_batch /\ file_generator' = file_generator) =>
             (pc = "files" /\ file_batch' = Tail(file_batch))]_vars
    /\ [][(pc = "batch" /\ file_generator = <<>> /\ pc' # pc) =>
             pc' \in {"write", "exited"}]_vars
    /\ (InLoop ~> pc \in {"write", "exited"})

\* the loop has ended after more than one batch with every file visited
C32_Witness ==
    /\ pc = "write" /\ ended = ""
    /\ file_batch = <<>> /\ file_generator = <<>>
    /\ Len(processed) = Len(NonSidecar(ScanOrder))
    /\ Len(ScanOrder) > exiftool_batch_size

\* no segment of the cached definition accepts an alternative
NothingAccepted(metadata) ==
    \A i \in DOMAIN cache.def : FirstAccepted(cache.def[i], metadata) = 0

\* C33 (as stated): get_folder_path yields a destination directory for every
\* metadata record; when no segment of the pattern accepts an alternative
\* the path has no component, and generate_manifest still yields the entry,
\* whose target path is the target base path itself.
C33_AlwaysADirectory ==
    last.op = "get_folder_path" =>
        /\ ~last.raised
        /\ NothingAccepted(last.metadata) =>
              /\ last.path = <<>>
              /\ \E e \in {generate_manifest("/s/a/IMG1.jpg", config, last.metadata, cache)} :
                     /\ ~e.raised
                     /\ e.value.m["target"].m["path"] = Str(<<>>)
====
